---- MODULE Spec2Model ----
(***************************************************************************)
(* Commit chain / Game state machine of go-ipgs (package state): the four  *)
(* commit variants, the Game lifecycle (CreateGame, Accept, Confirm,       *)
(* Step), the Validator, the Merge engine, Publish to the object store,    *)
(* GetGame and the flat-file codec (Write / ReadGame).                     *)
(*                                                                         *)
(* Go pointers are modelled as indices.  No commit object is ever shared   *)
(* by two Game objects (Merge clones, ReadGame and GetGame build new       *)
(* objects), so every Game has its own arena of commit objects: the commit *)
(* pointer <<g, i>> is index i of games[g].commits, and within an arena    *)
(* the pointer is i alone; index 0 is nil.  A Player object is an index    *)
(* into PlayerObjs.                                                        *)
(* Instants (time.Time) are integers; the RFC3339Nano/UTC rendering used   *)
(* in IDs and signature data is injective on instants, so an instant       *)
(* stands for its rendering.  The hash of a stored object is the object    *)
(* itself (a content address without collisions), <<>> the empty string.   *)
(***************************************************************************)
EXTENDS Integers, Sequences, FiniteSets, TLC

VARIABLES
    games,      \* the Game objects: games[g].head and the commit objects of g
    store,      \* the objects held by the content-addressed object store
    now,        \* the wall clock
    last,       \* the last call and the error it returned
    heap,       \* the byte slices in memory: heap[a] is the content at a
    held,       \* the slices the caller holds, each with where it got it
    step,       \* the slices of a commit: its data and its signature
    cache,      \* the Cache: the value of each key that has one
    expire,     \* the Cache: the expiration time of each key that has one
    clock,      \* the clock the Cache reads
    calls,      \* the calls made on the Cache, each with what it returned
    procs,      \* the goroutines calling Step: where each is in its call
    mutex,      \* the mutex of the callers: the goroutine holding it, or 0
    discipline, \* how the callers call: "" before they start, then
                \* "mutex" (every call under the mutex) or "none"
    table,      \* State.games: the Game of each ID that has one
    owner,      \* State.Owner
    reply,      \* the last call on the State and what it returned
    lock,       \* Cache.lock: the goroutine that holds it, or 0
    disk,       \* the node directory: the directories state and state-tmp
    ipfs,       \* the state object linked under the node's IPNS name
    node,       \* the call of State.Write or FindLatestState in progress
    workers     \* the goroutines calling the Cache: where each is in its
                \* call

vars == <<games, store, now, last, heap, held, step,
          cache, expire, clock, calls, procs, mutex, discipline,
          table, owner, reply, lock, workers, disk, ipfs, node>>

\* the variables of the chains and of the store
coreVars == <<games, store, now, last>>
\* the variables of the byte slices
sliceVars == <<heap, held, step>>
\* the variables of the Cache
cacheVars == <<cache, expire, clock, calls>>

\* what the operations on chains, on slices and on the Cache leave alone
\* the variables of the goroutines that call Step
raceVars == <<procs, mutex, discipline>>

\* what the operations on chains, on slices, on the Cache and the steps of
\* the goroutines leave alone
\* the variables of the State
tableVars == <<table, owner, reply>>

\* the variables of the goroutines that call the Cache
lockVars == <<lock, workers>>

\* the variables of the node directory and of the node's IPNS name
diskVars == <<disk, ipfs, node>>

nonCoreVars ==
    <<sliceVars, cacheVars, raceVars, tableVars, lockVars, diskVars>>
nonSliceVars ==
    <<coreVars, cacheVars, raceVars, tableVars, lockVars, diskVars>>
nonCacheVars ==
    <<coreVars, sliceVars, raceVars, tableVars, lockVars, diskVars>>
nonRaceVars == <<sliceVars, cacheVars, tableVars, lockVars, diskVars>>
nonTableVars == <<sliceVars, cacheVars, raceVars, lockVars, diskVars>>
nonLockVars == <<coreVars, sliceVars, raceVars, tableVars, diskVars>>
nonDiskVars ==
    <<coreVars, sliceVars, cacheVars, raceVars, tableVars, lockVars>>

-----------------------------------------------------------------------------
(* Bounds *)

\* the Game objects
MaxGames == 2
\* the objects on the heap: the Game objects and their commit objects
MaxObjects == 8
\* the byte slices in memory
MaxSlices == 5
\* the calls made on the Cache
MaxCalls == 3
\* the last instant of the Cache's clock
MaxTime == 2

-----------------------------------------------------------------------------
(* Commit types *)

CommitTypeChallenge == "challenge-offer"
CommitTypeChallengeAcceptance == "challenge-accept"
CommitTypeChallengeConfirm == "challenge-confirm"
CommitTypeGameStep == "game-step"

Nil == 0
NoHash == <<>>

\* the empty signature (len(signature) == 0)
NoSig == [key |-> 0, msg |-> <<>>, nonce |-> <<>>]

\* Text (a comment, the data of a step, a hash) is a sequence of pieces; Sep
\* is the character "|" that fmt.Sprintf puts between the fields of
\* signature data.  A comment is the sequence of its pieces, "|" included.
\* A hash is "" (NoHash), the hash of a stored object (the object, a piece
\* without "|") or text a document gives as a Hash: <<piece, Sep, hash>>.
Sep == "|"

\* the word a Challenge signs in the place of a parent hash
None == <<"none">>

\* the pieces of a comment or of the data of a step
CommentText(c) == [i \in 1..Len(c) |-> <<c[i]>>]

\* the pieces of a hash
HashText(h) ==
    IF h = NoHash THEN <<>>
    ELSE IF Len(h) = 3 THEN <<<<h[1]>>, <<h[2]>>, h[3]>>
    ELSE <<h>>

\* fmt.Sprintf("%s|%s|%s|%s", id, time, comment, parentHash): the ID and the
\* RFC3339 time are of fixed form and have no "|" of their own, the comment
\* and the hash are written as they are
SignedText(id, t, comment, hash) ==
    <<id, t, CommentText(comment) \o <<<<Sep>>>> \o HashText(hash)>>

-----------------------------------------------------------------------------
(* Players.  A Player object has a public key (with its hash, which is the *)
(* player's ID) and optionally a private key.  Objects 1..3 are three      *)
(* local players, 4 is a second record of player 1 (same key, same ID),    *)
(* 5 is a player whose public key has no hash yet (empty ID), 6 is the     *)
(* public record of player 2 (no private key).                             *)

PlayerObjs == 1..6

\* Player.Key(): the identity of the key pair
PlayerKey(p) == CASE p = 1 -> 1 [] p = 2 -> 2 [] p = 3 -> 3
                  [] p = 4 -> 1 [] p = 5 -> 4 [] p = 6 -> 2

\* Player.ID(): the hash of the public key, 0 is ""
PlayerID(p) == CASE p = 1 -> 1 [] p = 2 -> 2 [] p = 3 -> 3
                 [] p = 4 -> 1 [] p = 5 -> 0 [] p = 6 -> 2

\* Player.PrivateKey() != nil
HasPrivateKey(p) == p \in {1, 2, 3, 4, 5}

\* the players handed to the lifecycle calls
Challengers == {1, 5, 6}
Accepters == {2, 5, 6}
Confirmers == PlayerObjs
Steppers == {3, 5, 6}

Exps == {1}
Comments == {<<"c", "|", "d">>}
Datas == {<<"m">>}

-----------------------------------------------------------------------------
(* Chain walks over the arena cs of one Game *)

RECURSIVE Commits(_, _)
\* Game.Commits: the chain of h, root first
Commits(cs, h) ==
    IF h = Nil THEN <<>> ELSE Append(Commits(cs, cs[h].parent), h)

RECURSIVE findCommit(_, _, _)
\* Game.findCommit with the type test of Challenge/Acceptance/Confirmation
findCommit(cs, h, type) ==
    IF h = Nil THEN Nil
    ELSE IF cs[h].type = type THEN h
    ELSE findCommit(cs, cs[h].parent, type)

Challenge(cs, h) == findCommit(cs, h, CommitTypeChallenge)
Acceptance(cs, h) == findCommit(cs, h, CommitTypeChallengeAcceptance)
Confirmation(cs, h) == findCommit(cs, h, CommitTypeChallengeConfirm)

\* the map pls of Game.Players(): for each non-empty ID of a committer of the
\* chain, the Player object of the last commit walked (from the head to the
\* root) that has this ID
PlayersMap(cs, h) ==
    LET ch == Commits(cs, h)
        ids == {PlayerID(cs[ch[i]].committer) : i \in 1..Len(ch)} \ {0}
    IN  [id \in ids |->
           cs[ch[CHOOSE i \in 1..Len(ch) :
                    /\ PlayerID(cs[ch[i]].committer) = id
                    /\ \A j \in 1..(i - 1) :
                          PlayerID(cs[ch[j]].committer) # id]].committer]

\* the orders in which a range over a map with the keys S may go
Orders(S) ==
    {o \in [1..Cardinality(S) -> S] :
        \A i, j \in 1..Cardinality(S) : o[i] = o[j] => i = j}

\* Game.Players(): the slices it may return.  pp is made with len(pls) nil
\* elements and the players are appended after them, in the order of the
\* range over the map.
Players(cs, h) ==
    LET pls == PlayersMap(cs, h)
        n == Cardinality(DOMAIN pls)
    IN  {[i \in 1..(2 * n) |-> IF i <= n THEN Nil ELSE pls[o[i - n]]] :
           o \in Orders(DOMAIN pls)}

RECURSIVE CommitID(_, _)
\* GameStep.ID(): the ID of the parent
GameStepID(cs, c) == CommitID(cs, cs[c].parent)

\* a faulty variant of CommitID: a confirmation adds its confirmer to the ID
IDWithConfirmer(cs, c) ==
    IF cs[c].type = CommitTypeChallenge
    THEN <<PlayerID(cs[c].committer), cs[c].timestamp>>
    ELSE IF cs[c].type \in {CommitTypeChallengeAcceptance,
                            CommitTypeChallengeConfirm}
    THEN Append(CommitID(cs, cs[c].parent), PlayerID(cs[c].committer))
    ELSE GameStepID(cs, c)

\* Commit.ID(): "<challenger>|<timestamp>" for a Challenge, "<challenge
\* id>|<accepter>" for a ChallengeAcceptance, the ID of the parent for a
\* ChallengeConfirmation
CommitID(cs, c) ==
    IF cs[c].type = CommitTypeChallenge
    THEN <<PlayerID(cs[c].committer), cs[c].timestamp>>
    ELSE IF cs[c].type = CommitTypeChallengeAcceptance
    THEN Append(CommitID(cs, cs[c].parent), PlayerID(cs[c].committer))
    ELSE IF cs[c].type = CommitTypeChallengeConfirm
    THEN CommitID(cs, cs[c].parent)
    ELSE GameStepID(cs, c)

\* GameStep.SignatureData(): "<id>|<timestamp>|<data>|<parent hash>", fails
\* when the parent has no hash
GameStepSignatureData(cs, c) ==
    IF cs[cs[c].parent].hash = NoHash
    THEN [ok |-> FALSE, msg |-> <<>>]
    ELSE [ok |-> TRUE,
          msg |-> SignedText(CommitID(cs, c), cs[c].timestamp, cs[c].comment,
                             cs[cs[c].parent].hash)]

\* a faulty variant of SignatureData: the hash of the parent is used without
\* being tested
SignsOnUnpublished(cs, c) ==
    [ok |-> TRUE,
     msg |-> SignedText(CommitID(cs, c),
                        IF cs[c].type = CommitTypeGameStep
                        THEN cs[c].timestamp ELSE cs[c].timeout,
                        cs[c].comment,
                        IF cs[c].type = CommitTypeChallenge
                        THEN NoHash ELSE cs[cs[c].parent].hash)]

\* Commit.SignatureData(): [ok, msg]; "<id>|<timeout>|<comment>|<parent
\* hash>", a Challenge has "none" for the parent hash and the other
\* variants fail when the parent has no hash
SignatureData(cs, c) ==
    IF cs[c].type = CommitTypeChallenge
    THEN [ok |-> TRUE,
          msg |-> SignedText(CommitID(cs, c), cs[c].timeout, cs[c].comment,
                             None)]
    ELSE IF cs[c].type = CommitTypeGameStep
    THEN GameStepSignatureData(cs, c)
    ELSE IF cs[cs[c].parent].hash = NoHash
    THEN [ok |-> FALSE, msg |-> <<>>]
    ELSE [ok |-> TRUE,
          msg |-> SignedText(CommitID(cs, c), cs[c].timeout, cs[c].comment,
                             cs[cs[c].parent].hash)]

\* signCommit: [ok, sig]; rnd is the randomness crypto.Sign draws, which
\* makes two signatures differ even over the same data
signCommit(cs, c, rnd) ==
    IF ~HasPrivateKey(cs[c].committer) THEN [ok |-> FALSE, sig |-> NoSig]
    ELSE IF ~SignatureData(cs, c).ok THEN [ok |-> FALSE, sig |-> NoSig]
    ELSE [ok |-> TRUE,
          sig |-> [key |-> PlayerKey(cs[c].committer),
                   msg |-> SignatureData(cs, c).msg,
                   nonce |-> rnd]]

\* a faulty variant of Sign: a commit that has a signature is signed again
SignsAgain(cs, c, rnd) ==
    IF ~signCommit(cs, c, rnd).ok THEN [ok |-> FALSE, cs |-> cs]
    ELSE [ok |-> TRUE,
          cs |-> [cs EXCEPT ![c].signature = signCommit(cs, c, rnd).sig]]

\* Commit.Sign(): [ok, cs]; a commit that has a signature keeps it
Sign(cs, c, rnd) ==
    IF cs[c].signature # NoSig THEN [ok |-> TRUE, cs |-> cs]
    ELSE IF ~signCommit(cs, c, rnd).ok THEN [ok |-> FALSE, cs |-> cs]
    ELSE [ok |-> TRUE,
          cs |-> [cs EXCEPT ![c].signature = signCommit(cs, c, rnd).sig]]

\* a faulty variant of Verify: a commit that has no committer passes
VerifiesUnknown(cs, c) ==
    IF cs[c].committer = Nil THEN ""
    ELSE IF ~SignatureData(cs, c).ok THEN "failed to get data for verification"
    ELSE IF cs[c].signature = NoSig THEN "panic"
    ELSE IF cs[c].signature.key = PlayerKey(cs[c].committer)
            /\ cs[c].signature.msg = SignatureData(cs, c).msg
    THEN ""
    ELSE "signature is not ok"

\* verifyCommit / Commit.Verify(): "" when the signature checks out;
\* crypto.Verify slices the signature and panics on an empty one
Verify(cs, c) ==
    IF cs[c].committer = Nil THEN "commit does not seem to have a committer"
    ELSE IF ~SignatureData(cs, c).ok THEN "failed to get data for verification"
    ELSE IF cs[c].signature = NoSig THEN "panic"
    ELSE IF cs[c].signature.key = PlayerKey(cs[c].committer)
            /\ cs[c].signature.msg = SignatureData(cs, c).msg
    THEN ""
    ELSE "signature is not ok"

\* the type Game.validate requires at position i (0-based) of the chain
PositionType(i) ==
    CASE i = 0 -> CommitTypeChallenge
      [] i = 1 -> CommitTypeChallengeAcceptance
      [] i = 2 -> CommitTypeChallengeConfirm
      [] OTHER -> CommitTypeGameStep

\* a faulty variant of TypedByPosition: the types are not looked at
AnyTypes(cs, h) == TRUE

\* the loop of Game.validate: every commit has the type of its position
TypedByPosition(cs, h) ==
    \A i \in 1..Len(Commits(cs, h)) :
       cs[Commits(cs, h)[i]].type = PositionType(i - 1)

\* a faulty variant of ConfirmedByChallenger: the steps too must be by the
\* challenger or by the accepter
OnlyTheParties(cs, h) ==
    /\ (Challenge(cs, h) # Nil /\ Confirmation(cs, h) # Nil)
       => PlayerID(cs[Challenge(cs, h)].committer)
          = PlayerID(cs[Confirmation(cs, h)].committer)
    /\ \A i \in 1..Len(Commits(cs, h)) :
          cs[Commits(cs, h)[i]].type = CommitTypeGameStep
          => PlayerID(cs[Commits(cs, h)[i]].committer)
             \in {PlayerID(cs[Challenge(cs, h)].committer),
                  PlayerID(cs[Acceptance(cs, h)].committer)}

\* a faulty variant of ConfirmedByChallenger: anybody's confirmation passes
AnyConfirmer(cs, h) == TRUE

\* the last test of Game.validate: a confirmation is by the challenger's ID
ConfirmedByChallenger(cs, h) ==
    (Challenge(cs, h) # Nil /\ Confirmation(cs, h) # Nil)
    => PlayerID(cs[Challenge(cs, h)].committer)
       = PlayerID(cs[Confirmation(cs, h)].committer)

\* Game.validate(): "" when the chain of h is valid
validate(cs, h) ==
    IF ~TypedByPosition(cs, h) THEN "commit type does not fit its position"
    ELSE IF ~ConfirmedByChallenger(cs, h)
    THEN "the game was not confirmed by the challenger"
    ELSE ""

NewCommit(type, timeout, comment, committer, parent, timestamp) ==
    [type |-> type, timeout |-> timeout, comment |-> comment,
     committer |-> committer, parent |-> parent, timestamp |-> timestamp,
     signature |-> NoSig, hash |-> NoHash]

\* a Game object
Game(cs, h) == [commits |-> cs, head |-> h]

RECURSIVE Heap(_)
\* the number of objects the Games gs hold
Heap(gs) ==
    IF gs = <<>> THEN 0 ELSE 1 + Len(Head(gs).commits) + Heap(Tail(gs))

\* the Games gs fit the bounds
Bounded(gs) == Len(gs) <= MaxGames /\ Heap(gs) <= MaxObjects

\* what the caller observes of a call: the operation and the error returned
\* ("" is nil, "panic" a run-time panic)
Call(op, err) == [op |-> op, err |-> err]

-----------------------------------------------------------------------------
(* Lifecycle *)

\* a faulty variant of Advance: the head is not put back after an error
AdvanceAnyway(g, cs, n, err) == [games EXCEPT ![g] = Game(cs, n)]

\* the end of Accept, Confirm and Step: the Games after the call, g.head is
\* the new commit n of cs when the call succeeds and is put back otherwise
Advance(g, cs, n, err) ==
    IF err = "" THEN [games EXCEPT ![g] = Game(cs, n)] ELSE games

\* no Game, an empty store
CoreInit ==
    /\ games = <<>>
    /\ store = {}
    /\ now = 0
    /\ last = Call("none", "")

\* no slice, no commit
SliceInit ==
    /\ heap = <<>>
    /\ held = {}
    /\ step = <<>>

\* NewCache(): no value, no expiration time, no call made
CacheInit ==
    /\ cache = [k \in {} |-> 0]
    /\ expire = [k \in {} |-> 0]
    /\ clock = 0
    /\ calls = <<>>

\* the two goroutines that call Step
Procs == {1, 2}

\* a goroutine that has made no call
NoCall ==
    [pc |-> "idle", g |-> 0, player |-> 0, data |-> <<>>, gs |-> Nil,
     h |-> Nil, err |-> "none"]

\* no goroutine has started
RaceInit ==
    /\ procs = [t \in Procs |-> NoCall]
    /\ mutex = 0
    /\ discipline = ""

\* what the caller observes of a call on the State: the operation, the ID
\* it was given, the ID and the error it returned
Reply(op, id, res, err) == [op |-> op, id |-> id, res |-> res, err |-> err]

\* NewState(): an empty table of games, no Owner
TableInit ==
    /\ table = [i \in {} |-> 0]
    /\ owner = Nil
    /\ reply = Reply("none", <<>>, <<>>, "")

\* the two goroutines that call the Cache
Workers == {1, 2}

\* a goroutine that is in no call
NoWork ==
    [pc |-> "idle", op |-> "", k |-> "", v |-> "", e |-> 0, at |-> 0,
     res |-> "", err |-> ""]

\* the lock is free, no goroutine is in a call
LockInit ==
    /\ lock = 0
    /\ workers = [t \in Workers |-> NoWork]

\* the entries State.Write creates under a state directory, in its order
Entries == <<"last-updated", "players", "player-000.json", "games">>
AllEntries == {Entries[i] : i \in 1..Len(Entries)}

\* no directory; lu is the content of the file last-updated and body the
\* content of the players and games files, "" while they are not written
NoDir == [exists |-> FALSE, lu |-> <<>>, body |-> "", has |-> {}]

\* State.LastUpdatedString: the instant of the time in UTC, whatever the
\* location of the time value
LastUpdatedString(st) == <<st.t>>

\* State.ParseLastUpdated: the time of the string, in UTC
ParseLastUpdated(str) == [t |-> str[1], loc |-> "UTC"]

\* the directory a completed State.Write of the state st leaves
Written(st) ==
    [exists |-> TRUE, lu |-> LastUpdatedString(st), body |-> st.body,
     has |-> AllEntries]

\* a State: its LastUpdated, its players and games (body) and whether its
\* Owner holds the private key
NoState == [t |-> 0, loc |-> "UTC", body |-> "", priv |-> FALSE]

\* no call in progress; ret is what the last call returned
NoNode ==
    [pc |-> "idle", n |-> 0, st |-> NoState, commit |-> FALSE,
     fs |-> <<>>, ip |-> <<>>, ret |-> [op |-> "", st |-> <<>>, err |-> ""]]

\* an initialised node: nodeDir/state holds a complete state, nothing is
\* published yet
DiskInit ==
    /\ disk = [state |-> Written([NoState EXCEPT !.body = "a"]),
               tmp |-> NoDir]
    /\ ipfs = <<>>
    /\ node = NoNode

Init ==
    /\ CoreInit /\ SliceInit /\ CacheInit /\ RaceInit /\ TableInit
    /\ LockInit /\ DiskInit

\* CreateGame(challenger, exp, c); t is the reading of time.Now()
CreateGame(challenger, exp, c, t) ==
    LET g == Len(games) + 1
        s == Sign(<<NewCommit(CommitTypeChallenge, t + exp, c, challenger,
                              Nil, t)>>, 1, <<g, 1>>)
        err == IF PlayerID(challenger) = 0 THEN "challenger has an empty id"
               ELSE IF ~HasPrivateKey(challenger)
               THEN "missing challenger private key"
               ELSE IF ~s.ok THEN "failed to create challenge"
               ELSE IF validate(s.cs, 1) # "" THEN "failed to create game"
               ELSE ""
    IN  /\ games' = IF err = "" THEN Append(games, Game(s.cs, 1)) ELSE games
        /\ last' = Call("CreateGame", err)
        /\ Bounded(games')
        /\ UNCHANGED <<store, now>>

\* a faulty variant of AcceptRefused: the ID of the accepter is not looked at
AcceptsWithoutID(cs, h, accepter) ==
    IF Acceptance(cs, h) # Nil THEN "game has already been accepted"
    ELSE IF Challenge(cs, h) = Nil THEN "challenge has not been created yet"
    ELSE IF ~HasPrivateKey(accepter) THEN "missing accepter private key"
    ELSE ""

\* the tests Game.Accept starts with: the error it returns at once, or ""
AcceptRefused(cs, h, accepter) ==
    IF Acceptance(cs, h) # Nil THEN "game has already been accepted"
    ELSE IF Challenge(cs, h) = Nil THEN "challenge has not been created yet"
    ELSE IF PlayerID(accepter) = 0 THEN "accepter has an empty id"
    ELSE IF ~HasPrivateKey(accepter) THEN "missing accepter private key"
    ELSE ""

\* Game.Accept(accepter, exp, c)
Accept(g, accepter, exp, c, t) ==
    LET cs == games[g].commits
        h == games[g].head
        n == Len(cs) + 1
        s == Sign(Append(cs, NewCommit(CommitTypeChallengeAcceptance, t + exp,
                                       c, accepter, Challenge(cs, h), t)),
                  n, <<g, n>>)
        err == IF AcceptRefused(cs, h, accepter) # ""
               THEN AcceptRefused(cs, h, accepter)
               ELSE IF ~s.ok THEN "failed to create challenge acceptance"
               ELSE IF validate(s.cs, n) # ""
               THEN "failed to add challenge acceptance to game"
               ELSE ""
    IN  /\ games' = Advance(g, s.cs, n, err)
        /\ last' = Call("Accept", err)
        /\ Bounded(games')
        /\ UNCHANGED <<store, now>>

\* a faulty variant of IsChallenger: the confirmer is not compared
AnyoneConfirms(cs, h, confirmer) == TRUE

\* the test of Game.Confirm that the confirmer is the challenger
IsChallenger(cs, h, confirmer) ==
    cs[Challenge(cs, h)].committer = confirmer

\* Game.Confirm(confirmer, exp, c)
Confirm(g, confirmer, exp, c, t) ==
    LET cs == games[g].commits
        h == games[g].head
        n == Len(cs) + 1
        s == Sign(Append(cs, NewCommit(CommitTypeChallengeConfirm, t + exp, c,
                                       confirmer, Acceptance(cs, h), t)),
                  n, <<g, n>>)
        err == IF Confirmation(cs, h) # Nil
               THEN "game has already been confirmed"
               ELSE IF Acceptance(cs, h) = Nil
               THEN "challange has not been accepted yet"
               ELSE IF PlayerID(confirmer) = 0 THEN "confirmer has an empty id"
               ELSE IF ~HasPrivateKey(confirmer)
               THEN "missing confirmer private key"
               ELSE IF ~IsChallenger(cs, h, confirmer)
               THEN "only the challenger may confirm a challenge"
               ELSE IF ~s.ok THEN "failed to create challenge confirmation"
               ELSE IF validate(s.cs, n) # ""
               THEN "failed to add challenge confirmation to game"
               ELSE ""
    IN  /\ games' = Advance(g, s.cs, n, err)
        /\ last' = Call("Confirm", err)
        /\ Bounded(games')
        /\ UNCHANGED <<store, now>>

\* a faulty variant of StepRefused: the ID of the player is not looked at
StepsWithoutID(cs, h, player) ==
    IF Confirmation(cs, h) = Nil THEN "hame has not been confirmed yet"
    ELSE IF ~HasPrivateKey(player) THEN "missing player private key"
    ELSE ""

\* the tests Game.Step starts with: the error it returns at once, or ""
StepRefused(cs, h, player) ==
    IF Confirmation(cs, h) = Nil THEN "hame has not been confirmed yet"
    ELSE IF PlayerID(player) = 0 THEN "player has an empty id"
    ELSE IF ~HasPrivateKey(player) THEN "missing player private key"
    ELSE ""

\* Game.Step(player, data) on Game g: [err, cs, hd], the error returned, the
\* commit objects of g and g.head after the call
StepResult(g, player, data, t) ==
    LET cs == games[g].commits
        h == games[g].head
        n == Len(cs) + 1
        s == Sign(Append(cs, NewCommit(CommitTypeGameStep, 0, data, player,
                                       h, t)),
                  n, <<g, n>>)
        err == IF StepRefused(cs, h, player) # ""
               THEN StepRefused(cs, h, player)
               ELSE IF ~s.ok THEN "failed to create game step"
               ELSE IF validate(s.cs, n) # ""
               THEN "failed to add game step to game"
               ELSE ""
    IN  IF err = "" THEN [err |-> err, cs |-> s.cs, hd |-> n]
        ELSE [err |-> err, cs |-> cs, hd |-> h]

\* g.Step(player, data)
Step(g, player, data, t) ==
    LET r == StepResult(g, player, data, t)
    IN  /\ games' = Advance(g, r.cs, r.hd, r.err)
        /\ last' = Call("Step", r.err)
        /\ Bounded(games')
        /\ UNCHANGED <<store, now>>

-----------------------------------------------------------------------------
(* Publish.  The object store is content addressed: equal objects have    *)
(* equal hashes, different objects different hashes.                       *)

\* the number of objects the store accepts before it starts to fail
Budgets == {0, MaxObjects}

\* the object publishCommit builds: the metadata (timestamp, type tag,
\* signature) with the links to the committer's key, to the data object
\* (timeout and comment, or the data of a step) and to the parent
CommitObject(cs, c) ==
    <<cs[c].timestamp, cs[c].type, cs[c].signature,
      PlayerID(cs[c].committer), cs[c].timeout, cs[c].comment,
      IF cs[c].parent = Nil THEN NoHash ELSE cs[cs[c].parent].hash>>

RECURSIVE PublishCommit(_, _, _, _, _)
\* a faulty variant of PublishCommit: the hash the store returns is not kept
\* in the commit
PublishUnrecorded(cs, st, c, budget, g) ==
    IF cs[c].hash # NoHash
    THEN [ok |-> TRUE, cs |-> cs, st |-> st, budget |-> budget]
    ELSE
    LET up == IF cs[c].parent # Nil /\ cs[cs[c].parent].hash = NoHash
              THEN PublishCommit(cs, st, cs[c].parent, budget, g)
              ELSE [ok |-> TRUE, cs |-> cs, st |-> st, budget |-> budget]
        sg == Sign(up.cs, c, <<g, c>>)
        obj == CommitObject(sg.cs, c)
    IN  IF ~up.ok THEN up
        ELSE IF ~sg.ok \/ up.budget = 0
        THEN [ok |-> FALSE, cs |-> up.cs, st |-> up.st, budget |-> up.budget]
        ELSE [ok |-> TRUE,
              cs |-> sg.cs,
              st |-> up.st \cup {obj},
              budget |-> up.budget - 1]

\* a faulty variant of PublishCommit: a commit that has a hash is published
\* again
Republish(cs, st, c, budget, g) ==
    LET up == IF cs[c].parent # Nil /\ cs[cs[c].parent].hash = NoHash
              THEN PublishCommit(cs, st, cs[c].parent, budget, g)
              ELSE [ok |-> TRUE, cs |-> cs, st |-> st, budget |-> budget]
        sg == Sign(up.cs, c, <<g, c>>)
        obj == CommitObject(sg.cs, c)
    IN  IF ~up.ok THEN up
        ELSE IF ~sg.ok \/ up.budget = 0
        THEN [ok |-> FALSE, cs |-> up.cs, st |-> up.st, budget |-> up.budget]
        ELSE [ok |-> TRUE,
              cs |-> [sg.cs EXCEPT ![c].hash = obj],
              st |-> up.st \cup {obj},
              budget |-> up.budget - 1]

\* Commit.Publish with publishCommit: [ok, cs, st, budget]
PublishCommit(cs, st, c, budget, g) ==
    IF cs[c].hash # NoHash
    THEN [ok |-> TRUE, cs |-> cs, st |-> st, budget |-> budget]
    ELSE
    LET up == IF cs[c].parent # Nil /\ cs[cs[c].parent].hash = NoHash
              THEN PublishCommit(cs, st, cs[c].parent, budget, g)
              ELSE [ok |-> TRUE, cs |-> cs, st |-> st, budget |-> budget]
        sg == Sign(up.cs, c, <<g, c>>)
        obj == CommitObject(sg.cs, c)
    IN  IF ~up.ok THEN up
        ELSE IF ~sg.ok \/ up.budget = 0
        THEN [ok |-> FALSE, cs |-> up.cs, st |-> up.st, budget |-> up.budget]
        ELSE [ok |-> TRUE,
              cs |-> [sg.cs EXCEPT ![c].hash = obj],
              st |-> up.st \cup {obj},
              budget |-> up.budget - 1]

\* Game.Publish(s)
Publish(g, budget) ==
    LET h == games[g].head
        r == PublishCommit(games[g].commits, store, h, budget, g)
    IN  /\ IF h = Nil
           THEN /\ last' = Call("Publish", "panic")
                /\ UNCHANGED <<games, store>>
           ELSE /\ games' = [games EXCEPT ![g].commits = r.cs]
                /\ store' = r.st
                /\ last' = Call("Publish",
                                IF r.ok THEN ""
                                ELSE "failed to publish game head")
        /\ UNCHANGED now

-----------------------------------------------------------------------------
(* Merge *)

\* the hashes of the chain of h, root first
Hashes(cs, h) == [i \in 1..Len(Commits(cs, h)) |-> cs[Commits(cs, h)[i]].hash]

\* a faulty variant of CommonLength: the roots are taken to be the same
AssumeCommonRoot(gh, oh, i) == IF Len(gh) > 0 /\ Len(oh) > 0 THEN 1 ELSE 0

RECURSIVE CommonLength(_, _, _)
\* the loop of Game.Merge that computes cl: the length of the longest
\* common prefix of two sequences of hashes (i is the prefix found so far)
CommonLength(gh, oh, i) ==
    IF i < Len(gh) /\ i < Len(oh) /\ gh[i + 1] = oh[i + 1]
    THEN CommonLength(gh, oh, i + 1)
    ELSE i

\* a faulty variant of Attachable: a clone attaches to a challenge only
OnlyOntoChallenge(type, headType) == headType = CommitTypeChallenge

\* the type test of Game.Merge on the commit a clone is attached to
Attachable(type, headType) ==
    CASE type = CommitTypeChallengeAcceptance ->
            headType = CommitTypeChallenge
      [] type = CommitTypeChallengeConfirm ->
            headType = CommitTypeChallengeAcceptance
      [] type = CommitTypeGameStep ->
            headType \in {CommitTypeChallengeConfirm, CommitTypeGameStep}
      [] OTHER -> FALSE

RECURSIVE CloneAttached(_, _, _, _, _)
\* a faulty variant of CloneTail: each clone becomes the head before it is
\* verified, and stays the head when its verification fails
CloneAttached(g0, cs, hd, tail, i) ==
    IF i > Len(tail) THEN [err |-> "", cs |-> cs, hd |-> hd]
    ELSE IF Verify(Append(cs, [tail[i] EXCEPT !.parent = hd]), Len(cs) + 1) # ""
    THEN [err |-> "failed to verify cloned commit",
          cs |-> Append(cs, [tail[i] EXCEPT !.parent = hd]),
          hd |-> Len(cs) + 1]
    ELSE CloneAttached(g0, Append(cs, [tail[i] EXCEPT !.parent = hd]),
                       Len(cs) + 1, tail, i + 1)

RECURSIVE CloneWithoutHash(_, _, _, _, _)
\* a faulty variant of CloneTail: the hash of a commit is not copied to its
\* clone
CloneWithoutHash(g0, cs, hd, tail, i) ==
    IF i > Len(tail) THEN [err |-> "", cs |-> cs, hd |-> hd]
    ELSE
    LET x == tail[i]
        n == Len(cs) + 1
        cs1 == Append(cs, [x EXCEPT !.parent = hd, !.hash = NoHash])
        fail(e) == [err |-> e, cs |-> g0.commits, hd |-> g0.head]
    IN  IF x.type = CommitTypeChallenge
        THEN fail("found a Challenge in the new tail")
        ELSE IF ~Attachable(x.type, cs[hd].type)
        THEN fail("previous commit does not fit")
        ELSE IF Verify(cs1, n) # ""
        THEN fail("failed to verify cloned commit")
        ELSE CloneWithoutHash(g0, cs1, n, tail, i + 1)

RECURSIVE CloneTail(_, _, _, _, _)
\* the loop of Game.Merge over newTail (the commit objects of o beyond the
\* common prefix): [err, cs, hd]; hd is lastCommon at first and the last
\* clone afterwards; a failure returns with g0, the Game as it was
CloneTail(g0, cs, hd, tail, i) ==
    IF i > Len(tail) THEN [err |-> "", cs |-> cs, hd |-> hd]
    ELSE
    LET x == tail[i]
        n == Len(cs) + 1
        cs1 == Append(cs, [x EXCEPT !.parent = hd])
        fail(e) == [err |-> e, cs |-> g0.commits, hd |-> g0.head]
    IN  IF x.type = CommitTypeChallenge
        THEN fail("found a Challenge in the new tail")
        ELSE IF ~Attachable(x.type, cs[hd].type)
        THEN fail("previous commit does not fit")
        ELSE IF Verify(cs1, n) # ""
        THEN fail("failed to verify cloned commit")
        ELSE CloneTail(g0, cs1, n, tail, i + 1)

\* a faulty variant of Unpublished: the hashes are not looked at
NoneUnpublished(cs, h) == FALSE

\* the first loops of Game.Merge: a commit of the chain of h has no hash
Unpublished(cs, h) ==
    \E i \in 1..Len(Commits(cs, h)) : cs[Commits(cs, h)[i]].hash = NoHash

\* a faulty variant of NothingNew: the empty tail is not noticed
AlwaysNew(n, cl) == FALSE

\* len(oTail) == 0: o, of length n, has nothing beyond the common prefix
NothingNew(n, cl) == n = cl

\* a faulty variant of Diverged: one commit of g beyond the prefix is not
\* noticed
DivergedByTwo(n, cl) == n > cl + 1

\* a faulty variant of Diverged: the commits of g beyond the prefix are
\* not noticed
NeverDiverged(n, cl) == FALSE

\* len(gTail) != 0 with a non-empty oTail: g, of length n, has commits
\* beyond the common prefix as well
Diverged(n, cl) == n # cl

\* Game.Merge(o) on g = Game(cs, gh) and o = Game(ocs, oh): [err, cs, hd],
\* the error returned, the commit objects of g and g.head after the call
MergeResult(cs, gh, ocs, oh) ==
    LET gs == Commits(cs, gh)
        os == Commits(ocs, oh)
        cl == CommonLength(Hashes(cs, gh), Hashes(ocs, oh), 0)
        oTail == [i \in 1..(Len(os) - cl) |-> ocs[os[cl + i]]]
        r == CloneTail(Game(cs, gh), cs, gs[cl], oTail, 1)
        keep(e) == [err |-> e, cs |-> cs, hd |-> gh]
    IN  IF Unpublished(cs, gh)
        THEN keep("no hash for commit in this game")
        ELSE IF Unpublished(ocs, oh)
        THEN keep("no hash for commit in other game")
        ELSE IF cl = 0
        THEN keep("the two games do not share a common history")
        ELSE IF NothingNew(Len(os), cl) THEN keep("")
        ELSE IF Diverged(Len(gs), cl)
        THEN keep("the two games have diverged")
        ELSE IF r.err # "" THEN r
        ELSE IF validate(r.cs, r.hd) # ""
        THEN keep("failed to update game head")
        ELSE r

\* g.Merge(o)
Merge(g, o) ==
    LET r == MergeResult(games[g].commits, games[g].head,
                         games[o].commits, games[o].head)
    IN  /\ games' = [games EXCEPT ![g] = Game(r.cs, r.hd)]
        /\ last' = Call("Merge", r.err)
        /\ Bounded(games')
        /\ UNCHANGED <<store, now>>

-----------------------------------------------------------------------------
(* Loading: the player table and the commit a loader builds *)

\* the map ps of ReadGame and GetGame: the player of the list with this ID
PlayerByID(players, id) ==
    IF id # 0 /\ \E i \in 1..Len(players) : PlayerID(players[i]) = id
    THEN players[CHOOSE i \in 1..Len(players) :
                    /\ PlayerID(players[i]) = id
                    /\ \A j \in (i + 1)..Len(players) :
                          PlayerID(players[j]) # id]
    ELSE Nil

\* the commit a loader attaches to: the challenge for an acceptance, the
\* acceptance for a confirmation, the head for a step
LoadParent(cs, hd, type) ==
    CASE type = CommitTypeChallenge -> Nil
      [] type = CommitTypeChallengeAcceptance -> Challenge(cs, hd)
      [] type = CommitTypeChallengeConfirm -> Acceptance(cs, hd)
      [] OTHER -> hd

\* the lists of players ReadGame and GetGame are given
PlayerLists == {<<1, 2, 3>>, <<4, 6>>}

-----------------------------------------------------------------------------
(* GetGame.  The hash of an object is the object, so the parent link of an *)
(* object (its 7th component) holds the parent object.                     *)

\* a hash no object of the network has
Missing == <<"missing">>

RECURSIVE RawCommits(_, _)
\* the first loop of GetGame with the reversal: [ok, rcs], root first
RawCommits(net, h) ==
    IF h \notin net THEN [ok |-> FALSE, rcs |-> <<>>]
    ELSE IF h[7] = NoHash THEN [ok |-> TRUE, rcs |-> <<h>>]
    ELSE LET up == RawCommits(net, h[7])
         IN  [ok |-> up.ok, rcs |-> Append(up.rcs, h)]

RECURSIVE GetEntries(_, _, _, _, _)
\* the second loop of GetGame: [err, cs, hd]
GetEntries(cs, hd, rcs, i, players) ==
    IF i > Len(rcs) THEN [err |-> "", cs |-> cs, hd |-> hd]
    ELSE
    LET rc == rcs[i]
        n == Len(cs) + 1
        cs1 == Append(cs, [type |-> rc[2],
                           timeout |-> rc[5],
                           comment |-> rc[6],
                           committer |-> PlayerByID(players, rc[4]),
                           parent |-> LoadParent(cs, hd, rc[2]),
                           timestamp |-> rc[1],
                           signature |-> rc[3],
                           hash |-> rc])
        stop(m) == [err |-> m, cs |-> cs, hd |-> hd]
    IN  IF rc[2] # PositionType(i - 1) THEN stop("unexpected commit type")
        ELSE IF Verify(cs1, n) = "panic" THEN stop("panic")
        ELSE IF Verify(cs1, n) # "" THEN stop("failed to load commit")
        ELSE GetEntries(cs1, n, rcs, i + 1, players)

\* GetGame(h, s, players) when the network holds the objects net:
\* [err, cs, hd]
GetGameResult(net, h, players) ==
    LET raw == RawCommits(net, h)
        r == GetEntries(<<>>, Nil, raw.rcs, 1, players)
    IN  IF ~raw.ok THEN [err |-> "failed to get raw commit", cs |-> <<>>,
                         hd |-> Nil]
        ELSE IF r.err # "" THEN [err |-> r.err, cs |-> <<>>, hd |-> Nil]
        ELSE IF validate(r.cs, r.hd) # ""
        THEN [err |-> "failed to load game", cs |-> <<>>, hd |-> Nil]
        ELSE r

GetGame(net, h, players) ==
    LET r == GetGameResult(net, h, players)
    IN  /\ games' = IF r.err = "" THEN Append(games, Game(r.cs, r.hd))
                    ELSE games
        /\ last' = Call("GetGame", r.err)
        /\ Bounded(games')
        /\ UNCHANGED <<store, now>>

-----------------------------------------------------------------------------
(* The flat-file codec.  A document is the sequence of the entries of a    *)
(* fileGame in the order ReadGame takes them: the Challenge, Acceptance    *)
(* and Confirmation keys when present, then the elements of Steps.         *)

RECURSIVE StepsFromHead(_, _)
\* the first loop of Game.Steps(): the steps met from the head down to the
\* first commit that is not a step, newest first
StepsFromHead(cs, h) ==
    IF h = Nil \/ cs[h].type # CommitTypeGameStep THEN <<>>
    ELSE <<h>> \o StepsFromHead(cs, cs[h].parent)

\* the second loop of Game.Steps() and of Game.Commits(): the slice reversed
Reversed(s) == [i \in 1..Len(s) |-> s[Len(s) + 1 - i]]

\* a faulty variant of Steps: the slice is returned as it was collected
StepsNewestFirst(cs, h) == StepsFromHead(cs, h)

\* Game.Steps(): the steps of the chain, oldest first
Steps(cs, h) == Reversed(StepsFromHead(cs, h))

\* fileChallenge, fileChallengeAcceptance, fileChallengeConfirmation and
\* fileGameStep as Game.Write fills them
FileEntry(cs, c, parentHash) ==
    [kind |-> cs[c].type,
     Timeout |-> cs[c].timeout,
     Comment |-> cs[c].comment,
     CommitterID |-> PlayerID(cs[c].committer),
     Timestamp |-> cs[c].timestamp,
     Signature |-> cs[c].signature,
     Hash |-> cs[c].hash,
     ParentHash |-> parentHash]

\* Game.Write(out): the document written for the game with head h
Write(cs, h) ==
    LET ch == Challenge(cs, h)
        ca == Acceptance(cs, h)
        cc == Confirmation(cs, h)
        gss == Steps(cs, h)
    IN  (IF ch = Nil THEN <<>> ELSE <<FileEntry(cs, ch, NoHash)>>)
        \o (IF ca = Nil THEN <<>> ELSE <<FileEntry(cs, ca, cs[ch].hash)>>)
        \o (IF cc = Nil THEN <<>> ELSE <<FileEntry(cs, cc, cs[ca].hash)>>)
        \o [i \in 1..Len(gss) |->
              FileEntry(cs, gss[i],
                        IF i > 1 THEN cs[gss[i - 1]].hash ELSE cs[cc].hash)]

RECURSIVE ReadEntries(_, _, _, _, _)
\* the body of ReadGame up to the final validation: [err, cs, hd]
ReadEntries(cs, hd, d, i, players) ==
    IF i > Len(d) THEN [err |-> "", cs |-> cs, hd |-> hd]
    ELSE
    LET e == d[i]
        par == LoadParent(cs, hd, e.kind)
        n == Len(cs) + 1
        cs1 == Append(cs, [type |-> e.kind,
                           timeout |-> e.Timeout,
                           comment |-> e.Comment,
                           committer |-> PlayerByID(players, e.CommitterID),
                           parent |-> par,
                           timestamp |-> e.Timestamp,
                           signature |-> e.Signature,
                           hash |-> e.Hash])
        stop(m) == [err |-> m, cs |-> cs, hd |-> hd]
    IN  IF e.kind # CommitTypeChallenge /\ par = Nil THEN stop("panic")
        ELSE IF e.kind # CommitTypeChallenge /\ cs[par].hash # e.ParentHash
        THEN stop("commit does not link back to the game")
        ELSE IF Verify(cs1, n) = "panic" THEN stop("panic")
        ELSE IF Verify(cs1, n) # "" THEN stop("failed to load commit")
        ELSE ReadEntries(cs1, n, d, i + 1, players)

\* ReadGame(in, players): [err, cs, hd]
ReadGameResult(d, players) ==
    LET r == ReadEntries(<<>>, Nil, d, 1, players)
    IN  IF r.err # "" THEN [err |-> r.err, cs |-> <<>>, hd |-> Nil]
        ELSE IF validate(r.cs, r.hd) # ""
        THEN [err |-> "failed to load game", cs |-> <<>>, hd |-> Nil]
        ELSE r

\* ReadGame(in, players) on the document d
ReadGame(d, players) ==
    LET r == ReadGameResult(d, players)
    IN  /\ games' = IF r.err = "" THEN Append(games, Game(r.cs, r.hd))
                    ELSE games
        /\ last' = Call("ReadGame", r.err)
        /\ Bounded(games')
        /\ UNCHANGED <<store, now>>

-----------------------------------------------------------------------------
(* Untrusted input.  Documents and objects come from peers: between Write  *)
(* and ReadGame a key or a step of the document may be dropped, an entry   *)
(* may be given the Hash of another stored commit of its kind, the end of  *)
(* a comment may be moved into the hash before it, a holder of a private   *)
(* key may sign an entry in the place of its committer or append a step of *)
(* its own; a peer may put a confirmation or a step of its own on top of a *)
(* stored commit.                                                          *)

\* the players whose keys sign forged entries and objects
Forgers == {3}

\* the signature of player p over the data msg (replayed as it is)
ForgedSignature(p, msg) == [key |-> PlayerKey(p), msg |-> msg, nonce |-> <<>>]

RECURSIVE DocID(_, _)
\* the ID ReadGame derives for entry i of d
DocID(d, i) ==
    IF i = 0 THEN <<>>
    ELSE IF d[i].kind = CommitTypeChallenge
    THEN <<d[i].CommitterID, d[i].Timestamp>>
    ELSE IF d[i].kind = CommitTypeChallengeAcceptance
    THEN Append(DocID(d, i - 1), d[i].CommitterID)
    ELSE DocID(d, i - 1)

\* the signature data ReadGame derives for entry i of d
DocSignatureData(d, i) ==
    SignedText(DocID(d, i),
               IF d[i].kind = CommitTypeGameStep
               THEN d[i].Timestamp ELSE d[i].Timeout,
               d[i].Comment,
               IF i > 1 THEN d[i - 1].Hash ELSE None)

\* entry i of d signed by p, in p's name
DocSign(d, i, p) ==
    [d EXCEPT ![i].Signature =
                 ForgedSignature(p, DocSignatureData(
                                       [d EXCEPT ![i].CommitterID =
                                                    PlayerID(p)], i)),
              ![i].CommitterID = PlayerID(p)]

\* entry i of d with the end of its comment, from the last "|" on, moved to
\* the front of the hash of the entry before it; the signature is kept
Respliced(d, i) ==
    LET c == d[i].Comment
        h == <<c[Len(c)], Sep, d[i - 1].Hash>>
    IN  [d EXCEPT ![i].Comment = SubSeq(c, 1, Len(c) - 2),
                  ![i].ParentHash = h,
                  ![i - 1].Hash = h]

\* the documents one modification away from d
Alterations(st, d) ==
    {SubSeq(d, 1, i - 1) \o SubSeq(d, i + 1, Len(d)) : i \in 1..Len(d)}
    \cup UNION {{[d EXCEPT ![i].Hash = h] :
                   h \in {x \in st : x[2] = d[i].kind /\ x # d[i].Hash}} :
                i \in 1..Len(d)}
    \cup {DocSign(d, i, p) : i \in 1..Len(d), p \in Forgers}
    \cup {Respliced(d, i) :
            i \in {j \in 2..Len(d) : /\ Len(d[j].Comment) > 2
                                     /\ d[j].Comment[Len(d[j].Comment) - 1] = Sep
                                     /\ Len(d[j - 1].Hash) = 7}}
    \cup {DocSign(Append(d, [kind |-> CommitTypeGameStep,
                             Timeout |-> 0,
                             Comment |-> <<"m">>,
                             CommitterID |-> PlayerID(p),
                             Timestamp |-> now,
                             Signature |-> NoSig,
                             Hash |-> NoHash,
                             ParentHash |-> IF Len(d) > 0
                                            THEN d[Len(d)].Hash ELSE NoHash]),
                  Len(d) + 1, p) : p \in Forgers}

\* the documents ReadGame may be given for the game with head h
Documents(st, cs, h) == {Write(cs, h)} \cup Alterations(st, Write(cs, h))

RECURSIVE ObjID(_)
\* the ID GetGame derives for the stored object h (none when a parent link
\* names no stored object)
ObjID(h) ==
    IF Len(h) # 7 THEN <<>>
    ELSE IF h[2] = CommitTypeChallenge THEN <<h[4], h[1]>>
    ELSE IF h[2] = CommitTypeChallengeAcceptance
    THEN Append(ObjID(h[7]), h[4])
    ELSE ObjID(h[7])

\* the object of a commit of this type that p signs on top of the object h
ForgedObject(type, h, p) ==
    LET timeout == IF type = CommitTypeGameStep THEN 0 ELSE now + 1
    IN  <<now, type,
          ForgedSignature(p, SignedText(ObjID(h),
                                        IF type = CommitTypeGameStep
                                        THEN now ELSE timeout,
                                        <<"m">>, h)),
          PlayerID(p), timeout, <<"m">>, h>>

\* the objects a peer may have put on top of the stored ones
Forgeries(st) ==
    {ForgedObject(CommitTypeGameStep, h, p) : h \in st, p \in Forgers}
    \cup {ForgedObject(CommitTypeChallengeConfirm, h, p) :
            h \in {x \in st : x[2] = CommitTypeChallengeAcceptance},
            p \in Forgers}

-----------------------------------------------------------------------------

Games == 1..Len(games)

\* the caller is between two calls
Idle == last.op = "none"

\* the caller has taken the result of its last call
Return ==
    /\ ~Idle
    /\ last' = Call("none", "")
    /\ UNCHANGED <<games, store, now>>

\* the objects GetGame may be asked for: the stored ones, the forgeries of
\* the peers and one that nobody has
Requests(st) == st \cup Forgeries(st) \cup {Missing}

Next ==
    \/ Idle /\ \E p \in Challengers, e \in Exps, c \in Comments :
                  CreateGame(p, e, c, now) /\ UNCHANGED nonCoreVars
    \/ Idle /\ \E g \in Games, p \in Accepters, e \in Exps, c \in Comments :
                  Accept(g, p, e, c, now) /\ UNCHANGED nonCoreVars
    \/ Idle /\ \E g \in Games, p \in Confirmers, e \in Exps, c \in Comments :
                  Confirm(g, p, e, c, now) /\ UNCHANGED nonCoreVars
    \/ Idle /\ \E g \in Games, p \in Steppers, d \in Datas :
                  Step(g, p, d, now) /\ UNCHANGED nonCoreVars
    \/ Idle /\ \E g \in Games, b \in Budgets :
                  Publish(g, b) /\ UNCHANGED nonCoreVars
    \/ Idle /\ \E g \in Games, o \in Games :
                  Merge(g, o) /\ UNCHANGED nonCoreVars
    \/ Idle /\ \E g \in Games :
                  \E d \in Documents(store, games[g].commits, games[g].head),
                     ps \in PlayerLists :
                     ReadGame(d, ps) /\ UNCHANGED nonCoreVars
    \/ Idle /\ \E h \in Requests(store), ps \in PlayerLists :
                  GetGame(store \cup ({h} \ {Missing}), h, ps)
                  /\ UNCHANGED nonCoreVars
    \/ Return /\ UNCHANGED nonCoreVars

\* the clock does not advance: all the calls happen at one instant
Spec == Init /\ [][Next]_vars

-----------------------------------------------------------------------------
(* Properties *)

\* the chain of Game g, root first, and its length
Chain(g) == Commits(games[g].commits, games[g].head)
Length(g) == Len(Chain(g))

\* commit i (from 1) of the chain of Game g
CommitAt(g, i) == games[g].commits[Chain(g)[i]]

\* the hashes of the chain of Game g, before and after the step
HashesOf(g) == [i \in 1..Length(g) |-> CommitAt(g, i).hash]
HashesAfter(g) ==
    [i \in 1..Len(Commits(games'[g].commits, games'[g].head)) |->
        games'[g].commits[Commits(games'[g].commits, games'[g].head)[i]].hash]

\* every commit of the chain of g has a hash
AllPublished(g) == \A i \in 1..Length(g) : CommitAt(g, i).hash # NoHash

\* s is a prefix of t
IsPrefix(s, t) == Len(s) <= Len(t) /\ \A i \in 1..Len(s) : s[i] = t[i]

\* the number of leading positions in which s and t agree
Agree(s, t) ==
    CHOOSE k \in 0..Len(s) :
       /\ k <= Len(t)
       /\ \A i \in 1..k : s[i] = t[i]
       /\ (k < Len(s) /\ k < Len(t)) => s[k + 1] # t[k + 1]

\* the step is the call g.Merge(o)
IsMerge(g, o) == last'.op = "Merge" /\ Merge(g, o)

\* C1: in every reachable state the chain of every Game is typed by
\* position: commit 0 is a Challenge, commit 1 a ChallengeAcceptance,
\* commit 2 a ChallengeConfirmation, every later commit a GameStep.
C1_TypedChains ==
    \A g \in Games : \A i \in 1..Length(g) :
       /\ i = 1 => CommitAt(g, i).type = CommitTypeChallenge
       /\ i = 2 => CommitAt(g, i).type = CommitTypeChallengeAcceptance
       /\ i = 3 => CommitAt(g, i).type = CommitTypeChallengeConfirm
       /\ i > 3 => CommitAt(g, i).type = CommitTypeGameStep

\* a Step has just put a GameStep at position 3 of a chain
C1_Witness ==
    /\ last = Call("Step", "")
    /\ \E g \in Games : Length(g) = 4 /\ CommitAt(g, 4).type = CommitTypeGameStep

\* C2: a call of Accept, Confirm or Step either returns no error, and then
\* the head of one Game is one newly created commit whose parent is the
\* previous head, on a chain that passes validate, every old commit and
\* every other Game being as before; or it returns an error and every head
\* is the commit it was.
C2_AtomicLifecycle ==
    [][last'.op \in {"Accept", "Confirm", "Step"} =>
         IF last'.err = ""
         THEN /\ Len(games') = Len(games)
              /\ \E g \in Games :
                    /\ \A o \in Games \ {g} : games'[o] = games[o]
                    /\ Len(games'[g].commits) = Len(games[g].commits) + 1
                    /\ \A c \in 1..Len(games[g].commits) :
                          games'[g].commits[c] = games[g].commits[c]
                    /\ games'[g].head = Len(games'[g].commits)
                    /\ games'[g].commits[games'[g].head].parent = games[g].head
                    /\ validate(games'[g].commits, games'[g].head) = ""
         ELSE /\ Len(games') = Len(games)
              /\ \A g \in Games : games'[g].head = games[g].head]_vars

\* an Accept has failed after it had built its commit (the challenge is
\* unpublished, so the commit cannot be signed)
C2_Witness ==
    /\ last = Call("Accept", "failed to create challenge acceptance")
    /\ \E g \in Games : Length(g) = 1 /\ ~AllPublished(g)

\* the commits of o beyond position n verify in o
TailSigned(o, n) ==
    \A i \in (n + 1)..Length(o) : Verify(games[o].commits, Chain(o)[i]) = ""

\* the premises of a fast-forward of g to o, as C3 states them
FastForward(g, o) ==
    /\ AllPublished(g) /\ AllPublished(o)
    /\ IsPrefix(HashesOf(g), HashesOf(o))
    /\ Length(g) < Length(o)
    /\ TailSigned(o, Length(g))

C4_DivergenceRejected ==
    [][\A g, o \in Games :
          (/\ IsMerge(g, o)
           /\ Agree(HashesOf(g), HashesOf(o)) > 0
           /\ Agree(HashesOf(g), HashesOf(o)) < Length(g)
           /\ Agree(HashesOf(g), HashesOf(o)) < Length(o))
          => last'.err # "" /\ games'[g].head = games[g].head]_vars

\* a Merge has been refused because the two games have diverged
C4_Witness ==
    /\ last = Call("Merge", "the two games have diverged")
    /\ \E g, o \in Games :
          /\ AllPublished(g) /\ AllPublished(o)
          /\ Agree(HashesOf(g), HashesOf(o)) \in 1..(Length(g) - 1)
          /\ Agree(HashesOf(g), HashesOf(o)) < Length(o)

\* C5: whenever Merge returns an error, every Game (its head and all its
\* commit objects) is as before the call.
C5_MergeAllOrNothing ==
    [][(last'.op = "Merge" /\ last'.err # "") => games' = games]_vars

\* a Merge has been refused because a clone did not verify on the chain of g
C5_Witness ==
    /\ last = Call("Merge", "failed to verify cloned commit")
    /\ \E g, o \in Games : FastForward(g, o)

\* C6 as stated: if the hashes of o are a prefix of, or equal to, the hashes
\* of g, g.Merge(o) succeeds and the head of g is the commit it was.
C6_NothingNewAsStated ==
    [][\A g, o \in Games :
          (IsMerge(g, o) /\ IsPrefix(HashesOf(o), HashesOf(g)))
          => last'.err = "" /\ games'[g].head = games[g].head]_vars

\* C6, amended: the same when o has a commit and every commit of g is
\* published.
C6_NothingNew ==
    [][\A g, o \in Games :
          (/\ IsMerge(g, o)
           /\ IsPrefix(HashesOf(o), HashesOf(g))
           /\ Length(o) > 0
           /\ AllPublished(g))
          => last'.err = "" /\ games' = games]_vars

\* a Merge of a strictly shorter o into g has succeeded
C6_Witness ==
    /\ last = Call("Merge", "")
    /\ \E g, o \in Games :
          /\ Length(o) > 0 /\ Length(o) < Length(g)
          /\ AllPublished(g)
          /\ IsPrefix(HashesOf(o), HashesOf(g))

\* the roots of g and o have hashes, and not the same one
OtherRoots(g, o) ==
    /\ Length(g) > 0 /\ Length(o) > 0
    /\ CommitAt(g, 1).hash # NoHash /\ CommitAt(o, 1).hash # NoHash
    /\ CommitAt(g, 1).hash # CommitAt(o, 1).hash

\* C7 as stated: if the roots of g and o have different hashes, g.Merge(o)
\* fails with the 'no common history' error and the head of g is unchanged.
C7_UnrelatedAsStated ==
    [][\A g, o \in Games :
          (IsMerge(g, o) /\ OtherRoots(g, o))
          => /\ last'.err = "the two games do not share a common history"
             /\ games'[g].head = games[g].head]_vars

\* C7, amended: the same when every commit of g and of o is published.
C7_Unrelated ==
    [][\A g, o \in Games :
          (/\ IsMerge(g, o)
           /\ OtherRoots(g, o)
           /\ AllPublished(g) /\ AllPublished(o))
          => /\ last'.err = "the two games do not share a common history"
             /\ games' = games]_vars

\* a Merge of two published games with different roots has been refused
C7_Witness ==
    /\ last = Call("Merge", "the two games do not share a common history")
    /\ \E g, o \in Games :
          OtherRoots(g, o) /\ AllPublished(g) /\ AllPublished(o)

\* C8: g.Merge(o) returns an error and leaves the head of g as it was
\* whenever a commit of the chain of g or of the chain of o has no hash.
C8_UnpublishedRejected ==
    [][\A g, o \in Games :
          (IsMerge(g, o) /\ ~(AllPublished(g) /\ AllPublished(o)))
          => last'.err # "" /\ games'[g].head = games[g].head]_vars

\* a Merge has been refused because of an unpublished commit of the other
\* game, every commit of g being published
C8_Witness ==
    /\ last = Call("Merge", "no hash for commit in other game")
    /\ \E g, o \in Games : AllPublished(g) /\ ~AllPublished(o)

\* the step is the call g.Confirm(p, ...) on an accepted, unconfirmed game
IsConfirm(g, p) ==
    /\ last'.op = "Confirm"
    /\ Acceptance(games[g].commits, games[g].head) # Nil
    /\ Confirmation(games[g].commits, games[g].head) = Nil
    /\ \E e \in Exps, c \in Comments : Confirm(g, p, e, c, now)

\* the Player the challenge of g references
Challenger(g) ==
    games[g].commits[Challenge(games[g].commits, games[g].head)].committer

C10_ConfirmedByChallenger ==
    \A g \in Games : \A i, j \in 1..Length(g) :
       (/\ CommitAt(g, i).type = CommitTypeChallenge
        /\ CommitAt(g, j).type = CommitTypeChallengeConfirm)
       => PlayerID(CommitAt(g, j).committer) = PlayerID(CommitAt(g, i).committer)

\* GetGame has refused a stored chain whose confirmation a peer signed
C10_Witness ==
    /\ last = Call("GetGame", "failed to load game")
    /\ \E h \in store : h[2] = CommitTypeChallengeAcceptance

\* the step is the call g.Accept(p, ...)
IsAccept(g, p) ==
    /\ last'.op = "Accept"
    /\ \E e \in Exps, c \in Comments : Accept(g, p, e, c, now)

\* the number of acceptances in the chain of Game g
Acceptances(g) ==
    Cardinality({i \in 1..Length(g) :
                    CommitAt(g, i).type = CommitTypeChallengeAcceptance})

\* C11: Accept returns an error and leaves the head as it was when the
\* chain already has an acceptance (the game being accepted, confirmed or
\* stepped), when it has no challenge, and when the accepter has an empty ID
\* or no private key; and no chain ever has two acceptances.
C11_AcceptRefused ==
    /\ [](\A g \in Games : Acceptances(g) <= 1)
    /\ [][\A g \in Games, p \in PlayerObjs :
            (/\ IsAccept(g, p)
             /\ \/ Acceptances(g) > 0
                \/ Challenge(games[g].commits, games[g].head) = Nil
                \/ PlayerID(p) = 0
                \/ ~HasPrivateKey(p))
            => last'.err # "" /\ games' = games]_vars

\* an Accept has been refused on a game that has steps
C11_Witness ==
    /\ last = Call("Accept", "game has already been accepted")
    /\ Games # {}
    /\ \A g \in Games : Length(g) > 3 /\ AllPublished(g)

\* the step is the call g.Step(p, ...)
IsStep(g, p) ==
    /\ last'.op = "Step"
    /\ \E d \in Datas : Step(g, p, d, now)

\* C12: Step returns an error and leaves the head as it was on a game whose
\* chain has no ChallengeConfirmation, and when the player has an empty ID
\* or no private key.
C12_StepRefused ==
    [][\A g \in Games, p \in PlayerObjs :
          (/\ IsStep(g, p)
           /\ \/ \A i \in 1..Length(g) :
                    CommitAt(g, i).type # CommitTypeChallengeConfirm
              \/ PlayerID(p) = 0
              \/ ~HasPrivateKey(p))
          => last'.err # "" /\ games' = games]_vars

\* a Step has been refused on a published game that is accepted only
C12_Witness ==
    /\ last = Call("Step", "hame has not been confirmed yet")
    /\ Games # {}
    /\ \A g \in Games : Length(g) = 2 /\ AllPublished(g)

\* C13: on a confirmed game whose head is published, Step succeeds for
\* every player that has an ID and a private key, whether or not it is the
\* challenger or the accepter: it returns no error and the new head is a
\* step of that player on top of the old head, on a chain that passes
\* validate.
C13_AnyoneSteps ==
    \A g \in Games, p \in PlayerObjs, d \in Datas :
       (/\ Confirmation(games[g].commits, games[g].head) # Nil
        /\ games[g].commits[games[g].head].hash # NoHash
        /\ PlayerID(p) # 0
        /\ HasPrivateKey(p))
       => LET r == StepResult(g, p, d, now)
          IN  /\ r.err = ""
              /\ r.cs[r.hd].type = CommitTypeGameStep
              /\ r.cs[r.hd].committer = p
              /\ r.cs[r.hd].parent = games[g].head
              /\ validate(r.cs, r.hd) = ""

\* a player who is neither the challenger nor the accepter has taken a step
C13_Witness ==
    /\ last = Call("Step", "")
    /\ \E g \in Games :
          /\ Length(g) > 3
          /\ PlayerID(CommitAt(g, Length(g)).committer)
             \notin {PlayerID(CommitAt(g, 1).committer),
                     PlayerID(CommitAt(g, 2).committer)}

\* Game.ID() of Game g, before and after the step
GameID(g) == CommitID(games[g].commits, games[g].head)
GameIDAfter(g) == CommitID(games'[g].commits, games'[g].head)

\* C14: the ID of a game is "<challenger>|<challenge timestamp>" until the
\* chain has an acceptance; a step that brings the acceptance into the chain
\* is an Accept or a Merge and changes the ID to "<challenge ID>|<accepter>";
\* no other step changes it; with an acceptance in the chain the ID is the
\* ID of the acceptance, and the confirmation and every step report it too.
C14_IDStability ==
    /\ [](\A g \in Games :
            Length(g) > 0 =>
               LET cs == games[g].commits
                   ch == Challenge(cs, games[g].head)
                   ca == Acceptance(cs, games[g].head)
               IN  IF ca = Nil
                   THEN GameID(g) = <<PlayerID(cs[ch].committer),
                                      cs[ch].timestamp>>
                   ELSE /\ GameID(g) = CommitID(cs, ca)
                        /\ CommitID(cs, ca)
                           = <<PlayerID(cs[ch].committer), cs[ch].timestamp,
                               PlayerID(cs[ca].committer)>>
                        /\ \A i \in 2..Length(g) :
                              CommitID(cs, Chain(g)[i]) = GameID(g))
    /\ [][\A g \in Games :
            Length(g) > 0 =>
               IF /\ Acceptance(games[g].commits, games[g].head) = Nil
                  /\ Acceptance(games'[g].commits, games'[g].head) # Nil
               THEN /\ last'.op \in {"Accept", "Merge"}
                    /\ GameIDAfter(g) # GameID(g)
                    /\ GameIDAfter(g)
                       = Append(GameID(g),
                                PlayerID(games'[g].commits[
                                   Acceptance(games'[g].commits,
                                              games'[g].head)].committer))
               ELSE GameIDAfter(g) = GameID(g)]_vars

\* a Merge has brought an acceptance and a confirmation, signed in another
\* Game, into a Game that had its challenge only
C14_Witness ==
    /\ last = Call("Merge", "")
    /\ \E g \in Games :
          /\ Length(g) = 3
          /\ CommitAt(g, 2).signature.nonce # <<>>
          /\ CommitAt(g, 2).signature.nonce[1] # g
          /\ GameID(g) = CommitID(games[g].commits, Chain(g)[2])

\* C15: a commit object that has a hash keeps it in every step; Publish on
\* a commit that has a hash returns that hash and asks nothing of the
\* object store, even of one that fails; and a Game.Publish on a published
\* head changes neither the store nor the Games.
C15_HashWriteOnce ==
    /\ [][\A g \in Games : \A c \in 1..Len(games[g].commits) :
            games[g].commits[c].hash # NoHash
            => /\ c <= Len(games'[g].commits)
               /\ games'[g].commits[c].hash = games[g].commits[c].hash]_vars
    /\ [](\A g \in Games : \A c \in 1..Len(games[g].commits) :
            \A b \in Budgets :
               games[g].commits[c].hash # NoHash
               => PublishCommit(games[g].commits, store, c, b, g)
                  = [ok |-> TRUE, cs |-> games[g].commits, st |-> store,
                     budget |-> b])
    /\ [][\A g \in Games :
            (/\ last'.op = "Publish"
             /\ \E b \in Budgets : Publish(g, b)
             /\ games[g].head # Nil
             /\ games[g].commits[games[g].head].hash # NoHash)
            => last'.err = "" /\ store' = store /\ games' = games]_vars

\* a Publish has returned when every commit of every Game had a hash and
\* the Games hold copies of the same published chain
C15_Witness ==
    /\ last = Call("Publish", "")
    /\ Len(games) = 2
    /\ \A g \in Games : Length(g) = 2 /\ AllPublished(g)
    /\ HashesOf(1) = HashesOf(2)
    /\ Cardinality(store) = 2

\* every commit of the chain of c in the arena cs has a hash
PublishedUpTo(cs, c) ==
    \A i \in 1..Len(Commits(cs, c)) : cs[Commits(cs, c)[i]].hash # NoHash

\* C16: in every state, after a Publish that failed included, a commit that
\* has a hash has ancestors that all have one; a Publish of a commit, with
\* a store that works or with one that fails, leaves the commits so; and
\* after a Game.Publish that returns no error every commit of the chain has
\* a hash.
C16_ParentFirst ==
    /\ [](\A g \in Games : \A c \in 1..Len(games[g].commits) :
            /\ games[g].commits[c].hash # NoHash
               => PublishedUpTo(games[g].commits, c)
            /\ \A b \in Budgets :
                  LET r == PublishCommit(games[g].commits, store, c, b, g)
                  IN  /\ r.ok => PublishedUpTo(r.cs, c)
                      /\ \A d \in 1..Len(r.cs) :
                            r.cs[d].hash # NoHash => PublishedUpTo(r.cs, d))
    /\ [][\A g \in Games :
            (/\ last'.op = "Publish"
             /\ last'.err = ""
             /\ \E b \in Budgets : Publish(g, b))
            => PublishedUpTo(games'[g].commits, games'[g].head)]_vars

\* a Publish has failed on a chain whose head has published ancestors
C16_Witness ==
    /\ last = Call("Publish", "failed to publish game head")
    /\ Len(games) = 1
    /\ Length(1) = 3
    /\ CommitAt(1, 3).hash = NoHash
    /\ PublishedUpTo(games[1].commits, Chain(1)[2])

\* the step is a call of Accept, Confirm or Step on Game g
IsLifecycle(g) ==
    /\ last'.op \in {"Accept", "Confirm", "Step"}
    /\ \/ \E p \in PlayerObjs, e \in Exps, c \in Comments :
             last'.op = "Accept" /\ Accept(g, p, e, c, now)
       \/ \E p \in PlayerObjs, e \in Exps, c \in Comments :
             last'.op = "Confirm" /\ Confirm(g, p, e, c, now)
       \/ \E p \in PlayerObjs, d \in Datas :
             last'.op = "Step" /\ Step(g, p, d, now)

\* C17: the signature data of an acceptance, a confirmation or a step on
\* top of a head that has no hash cannot be built; and Accept, Confirm and
\* Step return an error and leave the Game as it was whenever its head has
\* no hash.
C17_UnpublishedParent ==
    /\ [](\A g \in Games :
            (games[g].head # Nil
             /\ games[g].commits[games[g].head].hash = NoHash)
            => \A type \in {CommitTypeChallengeAcceptance,
                            CommitTypeChallengeConfirm, CommitTypeGameStep},
                  p \in PlayerObjs :
                  ~SignatureData(
                      Append(games[g].commits,
                             NewCommit(type, now + 1, <<"c">>, p, games[g].head,
                                       now)),
                      Len(games[g].commits) + 1).ok)
    /\ [][\A g \in Games :
            (/\ games[g].head # Nil
             /\ games[g].commits[games[g].head].hash = NoHash
             /\ IsLifecycle(g))
            => last'.err # "" /\ games' = games]_vars

\* a Confirm by the challenger has failed on an acceptance that has no hash
C17_Witness ==
    /\ last = Call("Confirm", "failed to create challenge confirmation")
    /\ Games # {}
    /\ \A g \in Games : Length(g) = 2 /\ CommitAt(g, 2).hash = NoHash

\* what the signature of commit c of the arena cs is made over: the ID, the
\* timeout (the timestamp for a step), the comment or data, the parent hash
SignedFields(cs, c) ==
    <<CommitID(cs, c),
      IF cs[c].type = CommitTypeGameStep THEN cs[c].timestamp
      ELSE cs[c].timeout,
      cs[c].comment,
      IF cs[c].parent = Nil THEN NoHash ELSE cs[cs[c].parent].hash>>

\* C18 as stated: a commit verifies only with a signature made over its
\* current ID, timeout or timestamp, comment or data and parent hash, so two
\* commits that carry the same signature and both verify have the same
\* signed fields: a copy with a changed payload or parent hash and the old
\* signature does not verify.
C18_TamperEvidentAsStated ==
    \A g, o \in Games :
       \A x \in 1..Len(games[g].commits), y \in 1..Len(games[o].commits) :
          (/\ games[g].commits[x].signature = games[o].commits[y].signature
           /\ games[g].commits[x].signature # NoSig
           /\ Verify(games[g].commits, x) = ""
           /\ Verify(games[o].commits, y) = "")
          => SignedFields(games[g].commits, x)
             = SignedFields(games[o].commits, y)

\* the chain of h is valid and every commit of it is signed by its committer
ValidChain(cs, h) ==
    /\ h # Nil
    /\ validate(cs, h) = ""
    /\ \A i \in 1..Len(Commits(cs, h)) : Verify(cs, Commits(cs, h)[i]) = ""

\* the list players has a record of every committer of the chain of h
Covers(players, cs, h) ==
    \A i \in 1..Len(Commits(cs, h)) :
       PlayerByID(players, PlayerID(cs[Commits(cs, h)[i]].committer)) # Nil

\* the load r gave a game with as many commits as the chain of h, each of
\* which verifies and has the hash, signature, timestamp, comment or data
\* and committer key of the commit at its position in the chain of h
SameCommits(cs, h, r) ==
    /\ r.err = ""
    /\ Len(Commits(r.cs, r.hd)) = Len(Commits(cs, h))
    /\ \A i \in 1..Len(Commits(cs, h)) :
          LET a == cs[Commits(cs, h)[i]]
              b == r.cs[Commits(r.cs, r.hd)[i]]
          IN  /\ Verify(r.cs, Commits(r.cs, r.hd)[i]) = ""
              /\ b.hash = a.hash
              /\ b.signature = a.signature
              /\ b.timestamp = a.timestamp
              /\ b.comment = a.comment
              /\ PlayerKey(b.committer) = PlayerKey(a.committer)

\* Write then ReadGame gives the chain of game g back
FileRoundTrip(g, players) ==
    LET cs == games[g].commits
        h == games[g].head
    IN  SameCommits(cs, h, ReadGameResult(Write(cs, h), players))

\* Publish, when it succeeds, then GetGame of the hash of the head gives the
\* chain of game g back
StoreRoundTrip(g, players) ==
    LET p == PublishCommit(games[g].commits, store, games[g].head,
                           MaxObjects, g)
    IN  p.ok => SameCommits(p.cs, games[g].head,
                            GetGameResult(p.st, p.cs[games[g].head].hash,
                                          players))

\* C19 as stated: every valid chain, whatever its stage, comes back from
\* Write then ReadGame and from Publish then GetGame with the same commits,
\* given a list with the records of its players.
C19_RoundTripAsStated ==
    \A g \in Games, players \in PlayerLists :
       (/\ ValidChain(games[g].commits, games[g].head)
        /\ Covers(players, games[g].commits, games[g].head))
       => FileRoundTrip(g, players) /\ StoreRoundTrip(g, players)

\* what ReadGame has reconstructed when it comes to entry i of d: [err, cs, hd]
LoadedBefore(d, i, players) ==
    ReadEntries(<<>>, Nil, SubSeq(d, 1, i - 1), 1, players)

\* entry i of d declares an ancestor hash other than the hash of the commit
\* reconstructed just before it
LinkMismatch(d, i, players) ==
    LET r == LoadedBefore(d, i, players)
    IN  /\ d[i].kind # CommitTypeChallenge
        /\ r.err = ""
        /\ r.hd # Nil
        /\ d[i].ParentHash # r.cs[r.hd].hash

\* C20 as stated: ReadGame returns an error and no game for every document
\* in which an entry declares an ancestor hash that differs from the hash
\* of the commit reconstructed just before that entry.
C20_LinkMismatchAsStated ==
    \A g \in Games, players \in PlayerLists :
       \A d \in Documents(store, games[g].commits, games[g].head) :
          \A i \in 1..Len(d) :
             LinkMismatch(d, i, players)
             => /\ ReadGameResult(d, players).err \notin {"", "panic"}
                /\ ReadGameResult(d, players).cs = <<>>
                /\ ReadGameResult(d, players).hd = Nil

\* every commit of the load r has a committer of the list players, found by
\* its ID, verifies against the key of that committer, and the chain is valid
Trusted(r, players) ==
    /\ validate(r.cs, r.hd) = ""
    /\ \A i \in 1..Len(Commits(r.cs, r.hd)) :
          LET c == Commits(r.cs, r.hd)[i]
          IN  /\ r.cs[c].committer # Nil
              /\ PlayerID(r.cs[c].committer) # 0
              /\ \E j \in 1..Len(players) : players[j] = r.cs[c].committer
              /\ r.cs[c].signature # NoSig
              /\ r.cs[c].signature.key = PlayerKey(r.cs[c].committer)
              /\ Verify(r.cs, c) = ""

\* C21: a ReadGame or GetGame that returns a Game returns a valid chain in
\* which every commit has a committer of the list it was given, found by
\* its ID, and verifies against the key of that committer; a load that
\* returns an error returns no Game: nothing of the chain is kept.
C21_LoadAllOrNothing ==
    [][last'.op \in {"ReadGame", "GetGame"}
       => IF last'.err = ""
          THEN /\ Len(games') = Len(games) + 1
               /\ SubSeq(games', 1, Len(games)) = games
               /\ \E players \in PlayerLists :
                     Trusted([cs |-> games'[Len(games')].commits,
                              hd |-> games'[Len(games')].head], players)
          ELSE games' = games]_vars

\* a ReadGame has failed on a document that has an entry by a committer the
\* list <<4, 6>> has no record of
C21_Witness ==
    /\ last = Call("ReadGame", "failed to load commit")
    /\ \E g \in Games :
          \E d \in Documents(store, games[g].commits, games[g].head) :
             /\ \E i \in 1..Len(d) :
                   PlayerByID(<<4, 6>>, d[i].CommitterID) = Nil
             /\ ReadGameResult(d, <<4, 6>>).err = "failed to load commit"

-----------------------------------------------------------------------------
(* Byte slices.  A []byte is an address into heap; two slices with the     *)
(* same address share their bytes.  The caller holds the slices it made    *)
(* and the ones the accessors returned, and may write to any of them.      *)

Bytes == {0, 1}
SliceLen == 2
Contents == [1..SliceLen -> Bytes]

\* make([]byte, len(x)) followed by copy: [heap, at], a new slice with the
\* bytes of the slice at a
CopySlice(hp, a) == [heap |-> Append(hp, hp[a]), at |-> Len(hp) + 1]

\* the signature crypto.Sign makes over the data d, as bytes
SignatureOver(d) == [i \in 1..SliceLen |-> 1 - d[i]]

\* a faulty variant of Signature: the slice of the commit itself is returned
SignatureShared(hp, c) == [heap |-> hp, at |-> c.signature]

\* Commit.Signature(): [heap, at]
Signature(hp, c) == CopySlice(hp, c.signature)

\* GameStep.Data(): [heap, at]
Data(hp, c) == CopySlice(hp, c.data)

\* Commit.Verify() as far as the bytes go: the signature is one over the data
VerifiesBytes(hp, c) == hp[c.signature] = SignatureOver(hp[c.data])

\* the caller makes a slice with the content c
MakeSlice(c) ==
    /\ Len(heap) < MaxSlices
    /\ heap' = Append(heap, c)
    /\ held' = held \cup {[at |-> Len(heap) + 1, from |-> "caller"]}
    /\ UNCHANGED step

\* Game.Step(player, data) with the caller's slice at a for data: the data
\* is copied, the copy is signed
StepWith(a) ==
    LET d == CopySlice(heap, a)
    IN  /\ step = <<>>
        /\ [at |-> a, from |-> "caller"] \in held
        /\ Len(heap) + 2 <= MaxSlices
        /\ heap' = Append(d.heap, SignatureOver(d.heap[d.at]))
        /\ step' = [data |-> d.at, signature |-> d.at + 1]
        /\ held' = (held \ {[at |-> a, from |-> "caller"]})
                   \cup {[at |-> a, from |-> "Step"]}

\* the caller calls Signature() on the commit
CallSignature ==
    LET r == Signature(heap, step)
    IN  /\ step # <<>>
        /\ Len(r.heap) <= MaxSlices
        /\ heap' = r.heap
        /\ held' = held \cup {[at |-> r.at, from |-> "Signature"]}
        /\ UNCHANGED step

\* the caller calls Data() on the commit
CallData ==
    LET r == Data(heap, step)
    IN  /\ step # <<>>
        /\ Len(r.heap) <= MaxSlices
        /\ heap' = r.heap
        /\ held' = held \cup {[at |-> r.at, from |-> "Data"]}
        /\ UNCHANGED step

\* the caller writes the byte v at index i of a slice it holds
WriteByte(a, i, v) ==
    /\ \E h \in held : h.at = a
    /\ heap[a][i] # v
    /\ heap' = [heap EXCEPT ![a][i] = v]
    /\ UNCHANGED <<held, step>>

SliceNext ==
    \/ (\E c \in Contents : MakeSlice(c)) /\ UNCHANGED nonSliceVars
    \/ (\E a \in 1..Len(heap) : StepWith(a)) /\ UNCHANGED nonSliceVars
    \/ CallSignature /\ UNCHANGED nonSliceVars
    \/ CallData /\ UNCHANGED nonSliceVars
    \/ (\E a \in 1..Len(heap), i \in 1..SliceLen, v \in Bytes :
           WriteByte(a, i, v)) /\ UNCHANGED nonSliceVars

SliceSpec == Init /\ [][SliceNext]_vars

\* C22: once a commit is made, no write of the caller to a slice it holds
\* (the one it gave to Step, the ones Signature() and Data() returned)
\* changes the bytes Signature() and Data() return for the commit, nor
\* whether the commit verifies.
C22_DefensiveCopies ==
    [][step # <<>>
       => LET s == Signature(heap, step)
              t == Signature(heap', step')
              d == Data(heap, step)
              e == Data(heap', step')
          IN  /\ t.heap[t.at] = s.heap[s.at]
              /\ e.heap[e.at] = d.heap[d.at]
              /\ VerifiesBytes(heap', step') = VerifiesBytes(heap, step)]_vars

\* the caller has written to the slice it gave to Step, to one Signature()
\* returned and to one Data() returned: each differs from the commit's bytes
C22_Witness ==
    /\ step # <<>>
    /\ \E h \in held : h.from = "Step" /\ heap[h.at] # heap[step.data]
    /\ \E h \in held : h.from = "Signature"
                       /\ heap[h.at] # heap[step.signature]
    /\ \E h \in held : h.from = "Data" /\ heap[h.at] # heap[step.data]

\* the commits of the chain of Game g that are steps, in the order of the
\* chain
StepsOfChain(g) ==
    LET IsStepCommit(c) == games[g].commits[c].type = CommitTypeGameStep
    IN  SelectSeq(Chain(g), IsStepCommit)

\* C23: Steps() returns the steps of the chain, oldest first; the parent of
\* the first is the confirmation, the parent of each other one is the step
\* before it, the last one is the head; it is empty when the game has no
\* step.
C23_StepsInOrder ==
    \A g \in Games :
       LET cs == games[g].commits
           s == Steps(cs, games[g].head)
       IN  /\ s = StepsOfChain(g)
           /\ Len(s) > 0
              => /\ Confirmation(cs, games[g].head) # Nil
                 /\ cs[s[1]].parent = Confirmation(cs, games[g].head)
                 /\ \A i \in 2..Len(s) : cs[s[i]].parent = s[i - 1]
                 /\ s[Len(s)] = games[g].head

\* a game has two steps and another game has none
C23_Witness ==
    /\ \E g \in Games : Len(Steps(games[g].commits, games[g].head)) = 2
    /\ \E g \in Games :
          /\ Length(g) = 1
          /\ Steps(games[g].commits, games[g].head) = <<>>

\* the non-empty IDs of the committers of the chain of Game g
CommitterIDs(g) ==
    {PlayerID(CommitAt(g, i).committer) : i \in 1..Length(g)} \ {0}

\* C24 as stated: every slice Players() may return has each committer of the
\* chain (by non-empty ID) exactly once and has nothing else in it.
C24_PlayersAsStated ==
    \A g \in Games :
       \A r \in Players(games[g].commits, games[g].head) :
          /\ \A id \in CommitterIDs(g) :
                Cardinality({i \in 1..Len(r) :
                               r[i] # Nil /\ PlayerID(r[i]) = id}) = 1
          /\ \A i \in 1..Len(r) :
                r[i] # Nil /\ PlayerID(r[i]) \in CommitterIDs(g)

\* the chain of Game g after the step
ChainAfter(g) == Commits(games'[g].commits, games'[g].head)

Unsigned(cs, c, p) ==
    [cs EXCEPT ![c].signature = NoSig, ![c].committer = p]

\* C26: Sign on a commit that has a signature succeeds and leaves the
\* commit as it is, whether or not its committer has a private key; Sign on
\* a commit without a signature whose committer has no private key fails
\* and leaves it unsigned; and no operation changes a signature a commit
\* has.
C26_SignIdempotent ==
    /\ [](\A g \in Games :
            \A c \in 1..Len(games[g].commits) :
               LET cs == games[g].commits
               IN  /\ cs[c].signature # NoSig
                      => /\ Sign(cs, c, <<0, 0>>).ok
                         /\ Sign(cs, c, <<0, 0>>).cs = cs
                   /\ \A p \in PlayerObjs :
                         ~HasPrivateKey(p)
                         => /\ ~Sign(Unsigned(cs, c, p), c, <<0, 0>>).ok
                            /\ Sign(Unsigned(cs, c, p), c, <<0, 0>>).cs
                               = Unsigned(cs, c, p))
    /\ [][\A g \in Games :
            \A c \in 1..Len(games[g].commits) :
               (games[g].commits[c].signature # NoSig
                /\ c <= Len(games'[g].commits))
               => games'[g].commits[c].signature
                  = games[g].commits[c].signature]_vars

\* Publish has signed and stored the head of a Game whose committer is a
\* record without private key: the head has the signature it was loaded
\* with, and the Game it was loaded from still has it unpublished
C26_Witness ==
    /\ last = Call("Publish", "")
    /\ \E g, o \in Games :
          LET x == games[g].commits[games[g].head]
              y == games[o].commits[games[o].head]
          IN  /\ games[g].head # Nil
              /\ games[o].head # Nil
              /\ ~HasPrivateKey(x.committer)
              /\ x.signature # NoSig
              /\ x.signature = y.signature
              /\ x.hash = CommitObject(games[g].commits, games[g].head)
              /\ x.hash \in store
              /\ y.hash = NoHash

\* C27: each step returned by Steps() has a timestamp strictly later than
\* that of the step before it.  Step stamps the new step with the clock's
\* reading and compares it with nothing, and the loaders take the
\* timestamps as they are signed, so two steps made on one reading of the
\* clock sit in a chain.
C27_TimestampsAsStated ==
    \A g \in Games :
       LET cs == games[g].commits
           s == Steps(cs, games[g].head)
       IN  \A i \in 1..(Len(s) - 1) :
              cs[s[i]].timestamp < cs[s[i + 1]].timestamp

-----------------------------------------------------------------------------
(* The Cache (package cache): a map of values and a map of expiration      *)
(* times, both behind one mutex, so every operation is one step.  A Go map *)
(* is a function on the keys it holds; reading a key it does not hold      *)
(* gives the zero value.                                                   *)

Keys == {"k", "j"}
Values == {"v1", "v2"}
Durations == {1}

\* the nil interface value and the zero time.Time
NilValue == "nil"
ZeroTime == -1

\* m[k] = v
Put(m, k, v) == [x \in (DOMAIN m) \cup {k} |-> IF x = k THEN v ELSE m[x]]
\* delete(m, k)
Delete(m, k) == [x \in (DOMAIN m) \ {k} |-> m[x]]
\* m[k] read, zero when the map does not hold k
Get(m, k, zero) == IF k \in DOMAIN m THEN m[k] ELSE zero

\* a call on key k, with its arguments, the instant it was made at and what
\* it returned
CacheCall(op, k, v, e, res, err) ==
    [op |-> op, k |-> k, v |-> v, e |-> e, at |-> clock,
     res |-> res, err |-> err]

ErrTimeoutExpired == "timeout expired, value may be invalid now"

\* a faulty variant of Cache.Write: the expiration time of the key stays
CacheWriteKeepingExpire(k, v) ==
    /\ Len(calls) < MaxCalls
    /\ cache' = Put(cache, k, v)
    /\ expire' = expire
    /\ calls' = Append(calls, CacheCall("Write", k, v, 0, NilValue, ""))
    /\ UNCHANGED clock

\* Cache.Write(k, v)
CacheWrite(k, v) ==
    /\ Len(calls) < MaxCalls
    /\ cache' = Put(cache, k, v)
    /\ expire' = Delete(expire, k)
    /\ calls' = Append(calls, CacheCall("Write", k, v, 0, NilValue, ""))
    /\ UNCHANGED clock

\* Cache.WriteTimeout(k, v, e): the key expires at now + e
CacheWriteTimeout(k, v, e) ==
    /\ Len(calls) < MaxCalls
    /\ cache' = Put(cache, k, v)
    /\ expire' = Put(expire, k, clock + e)
    /\ calls' = Append(calls,
                       CacheCall("WriteTimeout", k, v, e, NilValue, ""))
    /\ UNCHANGED clock

\* what Cache.Read(k) returns: the value, with ErrTimeoutExpired when the
\* key has an expiration time and the clock is after it
ReadResult(k) ==
    LET v == Get(cache, k, NilValue)
        e == Get(expire, k, ZeroTime)
    IN  IF e # ZeroTime /\ clock > e
        THEN [res |-> v, err |-> ErrTimeoutExpired]
        ELSE [res |-> v, err |-> ""]

\* Cache.Read(k)
CacheRead(k) ==
    /\ Len(calls) < MaxCalls
    /\ calls' = Append(calls,
                       CacheCall("Read", k, NilValue, 0,
                                 ReadResult(k).res, ReadResult(k).err))
    /\ UNCHANGED <<cache, expire, clock>>

\* Cache.Clear(k)
CacheClear(k) ==
    /\ Len(calls) < MaxCalls
    /\ cache' = Delete(cache, k)
    /\ expire' = Delete(expire, k)
    /\ calls' = Append(calls, CacheCall("Clear", k, NilValue, 0, NilValue, ""))
    /\ UNCHANGED clock

\* time passes
Tick ==
    /\ clock < MaxTime
    /\ clock' = clock + 1
    /\ UNCHANGED <<cache, expire, calls>>

CacheNext ==
    \/ (\E k \in Keys, v \in Values : CacheWrite(k, v))
       /\ UNCHANGED nonCacheVars
    \/ (\E k \in Keys, v \in Values, e \in Durations :
           CacheWriteTimeout(k, v, e)) /\ UNCHANGED nonCacheVars
    \/ (\E k \in Keys : CacheRead(k)) /\ UNCHANGED nonCacheVars
    \/ (\E k \in Keys : CacheClear(k)) /\ UNCHANGED nonCacheVars
    \/ Tick /\ UNCHANGED nonCacheVars

CacheSpec == Init /\ [][CacheNext]_vars

\* the calls i < j < l are WriteTimeout(k, ..), Write(k, ..) and Read(k),
\* with no call that sets or clears k between the Write and the Read
WrittenThenRead(i, j, l) ==
    /\ i < j /\ j < l
    /\ calls[i].op = "WriteTimeout"
    /\ calls[j].op = "Write" /\ calls[j].k = calls[i].k
    /\ calls[l].op = "Read" /\ calls[l].k = calls[i].k
    /\ \A m \in (j + 1)..(l - 1) :
          calls[m].k = calls[i].k => calls[m].op = "Read"

\* C28: after WriteTimeout(k, v1, e) followed by Write(k, v2), every later
\* Read(k) returns v2 with no error, however much time has passed; and
\* right after any Write(k, v) the key holds v and has no expiration time.
C28_WriteClearsExpiration ==
    /\ \A i, j, l \in 1..Len(calls) :
          WrittenThenRead(i, j, l)
          => /\ calls[l].res = calls[j].v
             /\ calls[l].err = ""
    /\ (Len(calls) > 0 /\ calls[Len(calls)].op = "Write")
       => /\ calls[Len(calls)].k \notin DOMAIN expire
          /\ Get(cache, calls[Len(calls)].k, NilValue) = calls[Len(calls)].v

\* a key was written with a timeout, written again with another value by
\* Write, and read after the timeout of the first write had passed
C28_Witness ==
    \E i, j, l \in 1..Len(calls) :
       /\ WrittenThenRead(i, j, l)
       /\ calls[i].v # calls[j].v
       /\ calls[l].at > calls[i].at + calls[i].e
       /\ calls[l].res = calls[j].v

-----------------------------------------------------------------------------
(* Game.Step called by two goroutines.  Step takes no lock, so a call is   *)
(* a sequence of steps that interleave with those of the other goroutine:  *)
(* the tests, the new step built on the head read at that moment, the head *)
(* saved, the head written, the validation.  The callers either hold one   *)
(* mutex around every call, or none.                                       *)

\* the callers start calling, with or without a mutex
Spawn(d) ==
    /\ discipline = ""
    /\ Len(games) > 0
    /\ discipline' = d
    /\ UNCHANGED <<coreVars, procs, mutex>>

\* goroutine t returns err from its call: the caller is left with the
\* error, the Game and, for the properties, the step that was built
Returned(t, err) ==
    /\ procs' = [procs EXCEPT ![t] = [NoCall EXCEPT !.g = procs[t].g,
                                                   !.gs = procs[t].gs,
                                                   !.err = err]]
    /\ mutex' = IF mutex = t THEN 0 ELSE mutex

\* Step, lines 555-565: the tests on the Game and on the player
StepCheck(t, g, player, data) ==
    LET r == StepRefused(games[g].commits, games[g].head, player)
        call == [pc |-> "build", g |-> g, player |-> player, data |-> data,
                 gs |-> Nil, h |-> Nil, err |-> ""]
    IN  /\ discipline # ""
        /\ procs[t].pc = "idle"
        /\ discipline = "mutex" => mutex = 0
        /\ IF r # ""
           THEN /\ procs' = [procs EXCEPT ![t] = [NoCall EXCEPT !.g = g,
                                                                !.err = r]]
                /\ UNCHANGED mutex
           ELSE /\ procs' = [procs EXCEPT ![t] = call]
                /\ mutex' = IF discipline = "mutex" THEN t ELSE mutex
        /\ UNCHANGED <<coreVars, discipline>>

\* Step, lines 567-582: the new step, its parent the head as it is now,
\* signed
StepBuild(t) ==
    LET g == procs[t].g
        cs == games[g].commits
        n == Len(cs) + 1
        s == Sign(Append(cs, NewCommit(CommitTypeGameStep, 0, procs[t].data,
                                       procs[t].player, games[g].head, now)),
                  n, <<g, n>>)
    IN  /\ procs[t].pc = "build"
        /\ IF s.ok
           THEN /\ games' = [games EXCEPT ![g].commits = s.cs]
                /\ procs' = [procs EXCEPT ![t].pc = "save", ![t].gs = n]
                /\ UNCHANGED mutex
           ELSE /\ Returned(t, "failed to create game step")
                /\ UNCHANGED games
        /\ Bounded(games')
        /\ UNCHANGED <<store, now, last, discipline>>

\* Step, line 584: h := g.head
StepSave(t) ==
    /\ procs[t].pc = "save"
    /\ procs' = [procs EXCEPT ![t].pc = "set",
                              ![t].h = games[procs[t].g].head]
    /\ UNCHANGED <<coreVars, mutex, discipline>>

\* Step, line 585: g.head = gs
StepSet(t) ==
    /\ procs[t].pc = "set"
    /\ games' = [games EXCEPT ![procs[t].g].head = procs[t].gs]
    /\ procs' = [procs EXCEPT ![t].pc = "validate"]
    /\ UNCHANGED <<store, now, last, mutex, discipline>>

\* a faulty variant of StepValidate: the head is put back whatever validate
\* says
StepValidateRestoring(t) ==
    /\ procs[t].pc = "validate"
    /\ games' = [games EXCEPT ![procs[t].g].head = procs[t].h]
    /\ Returned(t, "")
    /\ UNCHANGED <<store, now, last, discipline>>

\* Step, lines 586-592: validate; the head is put back when it fails
StepValidate(t) ==
    LET g == procs[t].g
        err == validate(games[g].commits, games[g].head)
    IN  /\ procs[t].pc = "validate"
        /\ IF err # ""
           THEN /\ games' = [games EXCEPT ![g].head = procs[t].h]
                /\ Returned(t, "failed to add game step to game")
           ELSE /\ UNCHANGED games
                /\ Returned(t, "")
        /\ UNCHANGED <<store, now, last, discipline>>

\* no goroutine is in a call
Quiet == \A t \in Procs : procs[t].pc = "idle"

\* the Game is made by one caller before the goroutines start; then they
\* call Step, and the Game is published while none of them is in a call
RaceNext ==
    \/ Idle /\ discipline = ""
            /\ \E p \in Challengers, e \in Exps, c \in Comments :
                  CreateGame(p, e, c, now) /\ UNCHANGED nonCoreVars
    \/ Idle /\ discipline = ""
            /\ \E g \in Games, p \in Accepters, e \in Exps, c \in Comments :
                  Accept(g, p, e, c, now) /\ UNCHANGED nonCoreVars
    \/ Idle /\ discipline = ""
            /\ \E g \in Games, p \in Confirmers, e \in Exps, c \in Comments :
                  Confirm(g, p, e, c, now) /\ UNCHANGED nonCoreVars
    \/ Idle /\ Quiet
            /\ \E g \in Games, b \in Budgets :
                  Publish(g, b) /\ UNCHANGED nonCoreVars
    \/ Return /\ UNCHANGED nonCoreVars
    \/ Idle /\ (\E d \in {"mutex", "none"} : Spawn(d))
            /\ UNCHANGED nonRaceVars
    \/ (\E t \in Procs, g \in Games, p \in Steppers, d \in Datas :
           StepCheck(t, g, p, d)) /\ UNCHANGED nonRaceVars
    \/ (\E t \in Procs : StepBuild(t)) /\ UNCHANGED nonRaceVars
    \/ (\E t \in Procs : StepSave(t)) /\ UNCHANGED nonRaceVars
    \/ (\E t \in Procs : StepSet(t)) /\ UNCHANGED nonRaceVars
    \/ (\E t \in Procs : StepValidate(t)) /\ UNCHANGED nonRaceVars

RaceSpec == Init /\ [][RaceNext]_vars

\* commit c of Game g is reachable from the head of g
InChain(g, c) == \E i \in 1..Length(g) : Chain(g)[i] = c

\* the last call of goroutine t returned success
Succeeded(t) ==
    procs[t].pc = "idle" /\ procs[t].err = "" /\ procs[t].gs # Nil

\* C29: when the callers hold a mutex around every call, the step of every
\* successful Step is in the chain and stays there (a chain only grows); a
\* successful Step whose step is not reachable from the head happens only
\* without the mutex, and then another step was built on the same head.
C29_StepRace ==
    /\ [](discipline = "mutex"
          => \A t \in Procs :
                Succeeded(t) => InChain(procs[t].g, procs[t].gs))
    /\ [][discipline = "mutex"
          => \A g \in Games : IsPrefix(Chain(g), Chain(g)')]_vars
    /\ [](\A t \in Procs :
            (Succeeded(t) /\ ~InChain(procs[t].g, procs[t].gs))
            => /\ discipline = "none"
               /\ \E c \in 1..Len(games[procs[t].g].commits) :
                     /\ c # procs[t].gs
                     /\ games[procs[t].g].commits[c].parent
                        = games[procs[t].g].commits[procs[t].gs].parent)

\* without the mutex both goroutines returned success from Step on one
\* Game, both steps were built on the same head, and only one of them is
\* reachable from the head
C29_Witness ==
    /\ discipline = "none"
    /\ \A t \in Procs : Succeeded(t)
    /\ procs[1].g = procs[2].g
    /\ procs[1].gs # procs[2].gs
    /\ games[procs[1].g].commits[procs[1].gs].parent
       = games[procs[2].g].commits[procs[2].gs].parent
    /\ InChain(procs[1].g, procs[1].gs) # InChain(procs[2].g, procs[2].gs)

-----------------------------------------------------------------------------
(* The State and its table of games (State.games), indexed by the ID of    *)
(* the Game.  The table holds pointers: table[id] is an index of games.    *)
(* The calls are made once the Owner is set.                               *)

\* the players the State is owned by
Owners == {1, 2, 6}

\* an ID no Game has
UnknownID == <<0, 0>>

\* the IDs a caller can hold: those of the table, those the Games had, and
\* one that no Game has
TableIDs ==
    (DOMAIN table)
    \cup {CommitID(games[g].commits, 1) :
             g \in {x \in Games : Len(games[x].commits) > 0}}
    \cup {UnknownID}

\* st.Owner = p
SetOwner(p) ==
    /\ owner' = p
    /\ reply' = Reply("SetOwner", <<>>, <<>>, "")
    /\ UNCHANGED <<coreVars, table>>

\* State.Game(id)
StateGame(tb, id) == Get(tb, id, Nil)

\* State.CreateGame(exp, c)
StateCreateGame(exp, c) ==
    /\ owner # Nil
    /\ CreateGame(owner, exp, c, now)
    /\ LET g == Len(games')
           i == CommitID(games'[g].commits, games'[g].head)
       IN  IF last'.err # ""
           THEN /\ table' = table
                /\ reply' = Reply("CreateGame", <<>>, <<>>,
                                  "failed to create game")
           ELSE IF i \in DOMAIN table
           THEN /\ table' = table
                /\ reply' = Reply("CreateGame", <<>>, <<>>,
                                  "a game with this id already exists")
           ELSE /\ table' = Put(table, i, g)
                /\ reply' = Reply("CreateGame", <<>>, i, "")
    /\ UNCHANGED owner

\* a faulty variant of State.AcceptGame: the entry of the old ID is kept
AcceptGameKeepingOld(id, exp, c) ==
    /\ owner # Nil
    /\ IF StateGame(table, id) = Nil
       THEN /\ reply' = Reply("AcceptGame", id, <<>>, "game does not exist")
            /\ UNCHANGED <<coreVars, table>>
       ELSE LET g == StateGame(table, id)
                i == CommitID(games'[g].commits, games'[g].head)
            IN  /\ Accept(g, owner, exp, c, now)
                /\ IF last'.err # ""
                   THEN /\ table' = table
                        /\ reply' = Reply("AcceptGame", id, <<>>,
                                          "failed to accept game")
                   ELSE /\ table' = Put(table, i, g)
                        /\ reply' = Reply("AcceptGame", id, i, "")
    /\ UNCHANGED owner

\* State.AcceptGame(id, exp, c)
StateAcceptGame(id, exp, c) ==
    /\ owner # Nil
    /\ IF StateGame(table, id) = Nil
       THEN /\ reply' = Reply("AcceptGame", id, <<>>, "game does not exist")
            /\ UNCHANGED <<coreVars, table>>
       ELSE LET g == StateGame(table, id)
                i == CommitID(games'[g].commits, games'[g].head)
            IN  /\ Accept(g, owner, exp, c, now)
                /\ IF last'.err # ""
                   THEN /\ table' = table
                        /\ reply' = Reply("AcceptGame", id, <<>>,
                                          "failed to accept game")
                   ELSE IF i = id
                   THEN /\ table' = table
                        /\ reply' = Reply("AcceptGame", id, <<>>,
                                "accepted game has the same as the challenge")
                   ELSE IF i \in DOMAIN table
                   THEN /\ table' = table
                        /\ reply' = Reply("AcceptGame", id, <<>>,
                                "this game id has already been accepted")
                   ELSE /\ table' = Put(Delete(table, id), i, g)
                        /\ reply' = Reply("AcceptGame", id, i, "")
    /\ UNCHANGED owner

\* State.ConfirmGame(id, exp, c)
StateConfirmGame(id, exp, c) ==
    /\ owner # Nil
    /\ IF StateGame(table, id) = Nil
       THEN /\ reply' = Reply("ConfirmGame", id, <<>>, "game does not exist")
            /\ UNCHANGED <<coreVars, table>>
       ELSE LET g == StateGame(table, id)
                i == CommitID(games'[g].commits, games'[g].head)
            IN  /\ Confirm(g, owner, exp, c, now)
                /\ table' = table
                /\ reply' = Reply("ConfirmGame", id, <<>>,
                                  IF last'.err # ""
                                  THEN "failed to confirm game"
                                  ELSE IF i # id
                                  THEN "confirmed game has a different id"
                                  ELSE "")
    /\ UNCHANGED owner

\* State.StepGame(id, data)
StateStepGame(id, data) ==
    /\ owner # Nil
    /\ IF StateGame(table, id) = Nil
       THEN /\ reply' = Reply("StepGame", id, <<>>, "game does not exist")
            /\ UNCHANGED <<coreVars, table>>
       ELSE LET g == StateGame(table, id)
                i == CommitID(games'[g].commits, games'[g].head)
            IN  /\ Step(g, owner, data, now)
                /\ table' = table
                /\ reply' = Reply("StepGame", id, <<>>,
                                  IF last'.err # ""
                                  THEN "failed to step game"
                                  ELSE IF i # id
                                  THEN "stepped game has a different id"
                                  ELSE "")
    /\ UNCHANGED owner

RECURSIVE PublishAll(_, _, _, _)
\* the loop of State.Publish over the games, in the order the map gives
\* them: [ok, gs, st], it stops at the first Game that fails to publish
PublishAll(gs, st, order, budget) ==
    IF order = <<>> THEN [ok |-> TRUE, gs |-> gs, st |-> st]
    ELSE LET g == Head(order)
             r == PublishCommit(gs[g].commits, st, gs[g].head, budget, g)
             done == [gs EXCEPT ![g].commits = r.cs]
         IN  IF ~r.ok THEN [ok |-> FALSE, gs |-> done, st |-> r.st]
             ELSE PublishAll(done, r.st, Tail(order), r.budget)

\* State.Publish(s), as far as the games go
StatePublish(order, budget) ==
    LET r == PublishAll(games, store,
                        [n \in 1..Len(order) |-> table[order[n]]], budget)
    IN  /\ games' = r.gs
        /\ store' = r.st
        /\ last' = Call("Publish", IF r.ok THEN ""
                                   ELSE "failed to publish game head")
        /\ reply' = Reply("Publish", <<>>, <<>>,
                          IF r.ok THEN "" ELSE "failed to publish game")
        /\ UNCHANGED <<now, table, owner>>

TableNext ==
    \/ (\E p \in Owners : SetOwner(p)) /\ UNCHANGED nonTableVars
    \/ (\E e \in Exps, c \in Comments : StateCreateGame(e, c))
       /\ UNCHANGED nonTableVars
    \/ (\E id \in TableIDs, e \in Exps, c \in Comments :
           StateAcceptGame(id, e, c)) /\ UNCHANGED nonTableVars
    \/ (\E order \in Orders(DOMAIN table), b \in Budgets :
           StatePublish(order, b)) /\ UNCHANGED nonTableVars

TableSpec == Init /\ [][TableNext]_vars

-----------------------------------------------------------------------------
(* Merge from both sides *)

\* what g.Merge(o) returns for the Games g and o as they are
MergeOf(g, o) ==
    MergeResult(games[g].commits, games[g].head,
                games[o].commits, games[o].head)

\* what o.Merge(g) returns once g.Merge(o) has returned r
MergeBack(o, r) ==
    MergeResult(games[o].commits, games[o].head, r.cs, r.hd)

\* C33: whenever g.Merge(o) has succeeded, a following o.Merge(g) succeeds
\* as well, and afterwards the chains of the two Games have the same
\* hashes, so the same head hash.  A Game loaded by ReadGame carries the
\* hashes its document declared: g.Merge(o) finds nothing new in such a
\* Game o and succeeds, and o.Merge(g) fails to verify the clones.
C33_ConvergenceAsStated ==
    \A g, o \in Games :
       (g # o /\ MergeOf(g, o).err = "")
       => LET r == MergeOf(g, o)
              b == MergeBack(o, r)
          IN  /\ b.err = ""
              /\ Hashes(b.cs, b.hd) = Hashes(r.cs, r.hd)

\* the commit object c of Game g is after the step what it was before it,
\* but for a hash or a signature it did not have
Kept(g, c) ==
    LET a == games[g].commits[c]
        b == games'[g].commits[c]
    IN  /\ b.type = a.type
        /\ b.committer = a.committer
        /\ b.timestamp = a.timestamp
        /\ b.timeout = a.timeout
        /\ b.comment = a.comment
        /\ b.parent = a.parent
        /\ a.signature # NoSig => b.signature = a.signature
        /\ a.hash # NoHash => b.hash = a.hash

\* C34: whatever Accept, Confirm, Step, Merge or Publish return, the chain
\* of a Game before the call is a prefix of its chain after the call: the
\* same commit objects in the same order, each with the content it had and
\* with the hash it had when it had one.
C34_AppendOnly ==
    [][\A g \in Games :
          /\ g <= Len(games')
          /\ IsPrefix(Chain(g), ChainAfter(g))
          /\ \A i \in 1..Length(g) : Kept(g, Chain(g)[i])]_vars

\* a Merge has failed on two Games that have diverged, each with commits
\* of its own in its chain
C34_Witness ==
    /\ last = Call("Merge", "the two games have diverged")
    /\ \E g, o \in Games : /\ Length(g) >= 3
                           /\ Length(o) >= 3
                           /\ HashesOf(g) # HashesOf(o)

\* every commit of the chain of h but h itself has a hash
OnlyHeadUnpublished(cs, h) ==
    \A i \in 1..(Len(Commits(cs, h)) - 1) : cs[Commits(cs, h)[i]].hash # NoHash

\* C35: in every chain at most the head is unpublished: every commit other
\* than the head has a hash.
C35_OnlyHeadUnpublished ==
    \A g \in Games : OnlyHeadUnpublished(games[g].commits, games[g].head)

\* a Step has succeeded on a confirmed Game: the step is the head, without
\* a hash, on top of commits that all have one
C35_Witness ==
    /\ last = Call("Step", "")
    /\ \E g \in Games : /\ Length(g) >= 4
                        /\ CommitAt(g, Length(g)).hash = NoHash
                        /\ CommitAt(g, Length(g)).type = CommitTypeGameStep

\* the preconditions of Confirm on Game g, with the challenger decided by
\* ID: accepted, not confirmed, the acceptance published, the confirmer with
\* a private key and with the ID of the challenger
MayConfirm(g, confirmer) ==
    LET cs == games[g].commits
        h == games[g].head
    IN  /\ h # Nil
        /\ Confirmation(cs, h) = Nil
        /\ Acceptance(cs, h) # Nil
        /\ Challenge(cs, h) # Nil
        /\ cs[Acceptance(cs, h)].hash # NoHash
        /\ HasPrivateKey(confirmer)
        /\ PlayerID(confirmer) # 0
        /\ PlayerID(confirmer) = PlayerID(cs[Challenge(cs, h)].committer)

\* C37: Confirm succeeds whenever the ID of the confirmer is the ID of the
\* challenger and the other preconditions hold, whichever Player record
\* the confirmer is.  Confirm compares the record of the confirmer with
\* the record the challenge holds, so another record of the challenger
\* is refused.
C37_ConfirmByIDAsStated ==
    [][\A g \in Games, p \in Confirmers, e \in Exps, c \in Comments :
          (/\ last'.op = "Confirm"
           /\ MayConfirm(g, p)
           /\ Confirm(g, p, e, c, now))
          => last'.err = ""]_vars

\* C38: for every document, whichever of its keys are present, ReadGame
\* returns a Game that passes the Validator or returns an error; it never
\* aborts on an ancestor the document does not have.  ReadGame calls
\* Hash() on the acceptance of the Game it is building when it comes to a
\* Confirmation, and there is none when the document has no Acceptance.
C38_ReadGameTotalAsStated ==
    \A g \in Games, players \in PlayerLists :
       \A d \in Documents(store, games[g].commits, games[g].head) :
          LET r == ReadGameResult(d, players)
          IN  /\ r.err # "panic"
              /\ r.err = "" => validate(r.cs, r.hd) = ""

ErrDiverged == "the two games have diverged"

\* C39: if g.Merge(o) fails because the two Games have diverged, o.Merge(g)
\* fails for the same reason, and each of the two calls leaves both Games
\* as they are, so no order of merges makes one take the commits of the
\* other.
C39_DivergenceBothSides ==
    /\ [](\A g, o \in Games :
            MergeOf(g, o).err = ErrDiverged
            => /\ MergeOf(o, g).err = ErrDiverged
               /\ MergeOf(g, o).cs = games[g].commits
               /\ MergeOf(g, o).hd = games[g].head
               /\ MergeOf(o, g).cs = games[o].commits
               /\ MergeOf(o, g).hd = games[o].head)
    /\ [][last' = Call("Merge", ErrDiverged) => games' = games]_vars

\* a Merge has failed on two diverged Games of different lengths, and the
\* Merge the other way round fails as well
C39_Witness ==
    /\ last = Call("Merge", ErrDiverged)
    /\ \E g, o \in Games :
          /\ Length(g) > Length(o)
          /\ MergeOf(g, o).err = ErrDiverged
          /\ MergeOf(o, g).err = ErrDiverged

\* the players that own the State, each with a private key, and the IDs
\* they call it with: those of the table and one that no Game has
Players12 == {1, 2}
CallIDs == (DOMAIN table) \cup {UnknownID}

\* the four calls on the table of games, by two owners in turn, with a
\* store that works; as in the specification of the chains all the calls
\* happen at one instant
KeyedNext ==
    \/ (\E p \in Players12 : SetOwner(p)) /\ UNCHANGED nonTableVars
    \/ (\E e \in Exps, c \in Comments : StateCreateGame(e, c))
       /\ UNCHANGED nonTableVars
    \/ (\E id \in CallIDs, e \in Exps, c \in Comments :
           StateAcceptGame(id, e, c)) /\ UNCHANGED nonTableVars
    \/ (\E id \in CallIDs, e \in Exps, c \in Comments :
           StateConfirmGame(id, e, c)) /\ UNCHANGED nonTableVars
    \/ (\E id \in CallIDs, d \in Datas : StateStepGame(id, d))
       /\ UNCHANGED nonTableVars
    \/ (\E order \in Orders(DOMAIN table) :
           StatePublish(order, MaxObjects)) /\ UNCHANGED nonTableVars

KeyedSpec == Init /\ [][KeyedNext]_vars

\* every key of the table tb maps to a Game of gs whose ID is the key
KeyedByID(tb, gs) ==
    \A k \in DOMAIN tb : CommitID(gs[tb[k]].commits, gs[tb[k]].head) = k

\* C36: every key of the table maps to a Game whose ID() is the key, and a
\* call on the State that returns an error has changed neither the table
\* nor the head of a Game of the table.  AcceptGame looks for the new ID in
\* the table after Accept has moved the head of the Game, and returns an
\* error without putting the head back when the ID is taken.
C36_TableKeyedAsStated ==
    /\ [](KeyedByID(table, games))
    /\ [][(reply'.op \in {"CreateGame", "AcceptGame", "ConfirmGame",
                          "StepGame"}
           /\ reply'.err # "")
          => /\ table' = table
             /\ \A k \in DOMAIN table :
                   games'[table[k]].head = games[table[k]].head]_vars

-----------------------------------------------------------------------------
(* The Cache called by two goroutines.  Every method locks Cache.lock,     *)
(* runs its two statements and unlocks on return (defer): a call is        *)
(* Acquire, First, Second, Release, and the clock may advance in between.  *)
(* The calls are on one key; a call is recorded when it returns.           *)

CacheOps == {"Write", "WriteTimeout", "Clear", "Read"}
TheKey == "k"

\* the calls begun so far
CallsBegun ==
    Len(calls) + Cardinality({t \in Workers : workers[t].pc # "idle"})

\* a faulty variant of Acquire: the lock is taken whoever holds it
AcquireAnyway(t, op, k, v, e) ==
    /\ workers[t].pc = "idle"
    /\ CallsBegun < MaxCalls
    /\ lock' = t
    /\ workers' = [workers EXCEPT ![t] = [NoWork EXCEPT !.pc = "first",
                                                        !.op = op, !.k = k,
                                                        !.v = v, !.e = e]]
    /\ UNCHANGED cacheVars

\* c.lock.Lock() at the start of the method op called with k, v, e
Acquire(t, op, k, v, e) ==
    /\ workers[t].pc = "idle"
    /\ CallsBegun < MaxCalls
    /\ lock = 0
    /\ lock' = t
    /\ workers' = [workers EXCEPT ![t] = [NoWork EXCEPT !.pc = "first",
                                                        !.op = op, !.k = k,
                                                        !.v = v, !.e = e]]
    /\ UNCHANGED cacheVars

\* the first statement of the method: c.cache[k] = v, delete(c.cache, k),
\* or v := c.cache[k]
First(t) ==
    LET w == workers[t]
    IN  /\ w.pc = "first"
        /\ cache' = CASE w.op \in {"Write", "WriteTimeout"} ->
                            Put(cache, w.k, w.v)
                      [] w.op = "Clear" -> Delete(cache, w.k)
                      [] OTHER -> cache
        /\ workers' = [workers EXCEPT
                          ![t].pc = "second",
                          ![t].res = IF w.op = "Read"
                                     THEN Get(cache, w.k, NilValue)
                                     ELSE NilValue]
        /\ UNCHANGED <<expire, clock, calls, lock>>

\* the second statement of the method: delete(c.expire, k),
\* c.expire[k] = time.Now().Add(e), or e := c.expire[k] and its comparison
\* with time.Now()
Second(t) ==
    LET w == workers[t]
        ex == Get(expire, w.k, ZeroTime)
    IN  /\ w.pc = "second"
        /\ expire' = CASE w.op \in {"Write", "Clear"} -> Delete(expire, w.k)
                       [] w.op = "WriteTimeout" -> Put(expire, w.k, clock + w.e)
                       [] OTHER -> expire
        /\ workers' = [workers EXCEPT
                          ![t].pc = "unlock",
                          ![t].at = clock,
                          ![t].err = IF w.op = "Read" /\ ex # ZeroTime
                                        /\ clock > ex
                                     THEN ErrTimeoutExpired ELSE ""]
        /\ UNCHANGED <<cache, clock, calls, lock>>

\* the return of the method, with the deferred c.lock.Unlock()
Release(t) ==
    LET w == workers[t]
    IN  /\ w.pc = "unlock"
        /\ lock' = IF lock = t THEN 0 ELSE lock
        /\ calls' = Append(calls, [op |-> w.op, k |-> w.k, v |-> w.v,
                                   e |-> w.e, at |-> w.at, res |-> w.res,
                                   err |-> w.err, by |-> t])
        /\ workers' = [workers EXCEPT ![t] = NoWork]
        /\ UNCHANGED <<cache, expire, clock>>

LockNext ==
    \/ (\E t \in Workers, op \in CacheOps, v \in Values, e \in Durations :
           Acquire(t, op, TheKey,
                   IF op \in {"Write", "WriteTimeout"} THEN v ELSE NilValue,
                   IF op = "WriteTimeout" THEN e ELSE 0))
       /\ UNCHANGED nonLockVars
    \/ (\E t \in Workers : First(t)) /\ UNCHANGED nonLockVars
    \/ (\E t \in Workers : Second(t)) /\ UNCHANGED nonLockVars
    \/ (\E t \in Workers : Release(t)) /\ UNCHANGED nonLockVars
    \/ Tick /\ UNCHANGED nonCacheVars

LockSpec == Init /\ [][LockNext]_vars

\* the last call before call l that wrote or cleared the key, 0 if none
LastSet(l) ==
    IF \E m \in 1..(l - 1) : calls[m].op # "Read"
    THEN CHOOSE m \in 1..(l - 1) :
            /\ calls[m].op # "Read"
            /\ \A n \in (m + 1)..(l - 1) : calls[n].op = "Read"
    ELSE 0

\* what a Read at instant at returns after the call c: the value and the
\* expiration of c
AfterCall(c, at) ==
    CASE c.op = "Write" -> [res |-> c.v, err |-> ""]
      [] c.op = "WriteTimeout" ->
            [res |-> c.v,
             err |-> IF at > c.at + c.e THEN ErrTimeoutExpired ELSE ""]
      [] OTHER -> [res |-> NilValue, err |-> ""]

\* C40: the calls of the goroutines on one key take effect one at a time,
\* in the order of their returns: every Read returns the value and the
\* expiration state of the last write before it (the value of a Write with
\* no error, the value of a WriteTimeout with its own expiration), and nil
\* with no error after a Clear or when nothing was written; at most the
\* holder of the lock is inside a method.
C40_CacheAtomic ==
    /\ \A t \in Workers : workers[t].pc # "idle" => lock = t
    /\ \A l \in 1..Len(calls) :
          calls[l].op = "Read"
          => LET m == LastSet(l)
                 r == IF m = 0 THEN [res |-> NilValue, err |-> ""]
                      ELSE AfterCall(calls[m], calls[l].at)
             IN  calls[l].res = r.res /\ calls[l].err = r.err

\* one goroutine wrote the key with a timeout, the other cleared it, and a
\* Read after the timeout had passed returned nil with no error
C40_Witness ==
    /\ Len(calls) = 3
    /\ calls[1].op = "WriteTimeout"
    /\ calls[2].op = "Clear"
    /\ calls[2].by # calls[1].by
    /\ calls[3].op = "Read"
    /\ calls[3].at > calls[1].at + calls[1].e
    /\ calls[3].res = NilValue
    /\ calls[3].err = ""

-----------------------------------------------------------------------------
(* The node directory and the node's IPNS name.  State.Write is a sequence *)
(* of file system calls, each of which may fail, and the process may be    *)
(* stopped between any two of them.  FindLatestState reads the two stored  *)
(* states, chooses one and commits it: State.Write, then the publication.  *)

MaxStamp == 1
Stamps == 0..MaxStamp
Locations == {"UTC", "Local"}
Bodies == {"a", "b"}

\* a faulty variant of After: a tie goes to the first time
NotBefore(a, b) == a.t >= b.t

\* Time.After: the instants are compared, whatever the locations
After(a, b) == a.t > b.t

\* what State.Read needs: last-updated, the players directory with the
\* owner's file, the games directory
Readable(d) == d.exists /\ d.has = AllEntries

\* Player.addPrivateKey: the owner holds the key, or an error
AddPrivateKey(st, ok) == [st EXCEPT !.priv = ok]

\* the call returns (or, stopped, never returns): no call is in progress
NodeReturns(op, st, err) ==
    node' = [NoNode EXCEPT !.ret = [op |-> op, st |-> st, err |-> err]]

OpName == IF node.commit THEN "FindLatestState" ELSE "Write"

\* State.Write(nodeDir) is called on a state
StartWrite(t, loc, body) ==
    /\ node.pc = "idle"
    /\ node' = [NoNode EXCEPT !.pc = "rmtmp",
                              !.st = [t |-> t, loc |-> loc, body |-> body,
                                      priv |-> TRUE]]
    /\ UNCHANGED <<disk, ipfs>>

\* FindLatestState up to its call of Commit; reach: the IPNS name resolves,
\* keyed: addPrivateKey succeeds
FindStart(reach, keyed) ==
    /\ node.pc = "idle"
    /\ UNCHANGED <<disk, ipfs>>
    /\ IF ~Readable(disk.state)
       THEN NodeReturns("FindLatestState", <<>>,
                        "failed to read state from file system")
       ELSE LET fsSt == [t |-> ParseLastUpdated(disk.state.lu).t,
                         loc |-> ParseLastUpdated(disk.state.lu).loc,
                         body |-> disk.state.body, priv |-> TRUE]
                ipfsSt == IF reach /\ ipfs # <<>>
                          THEN <<[t |-> ParseLastUpdated(ipfs[1]).t,
                                  loc |-> ParseLastUpdated(ipfs[1]).loc,
                                  body |-> ipfs[2], priv |-> FALSE]>>
                          ELSE <<>>
                begun == [NoNode EXCEPT !.pc = "rmtmp", !.commit = TRUE,
                                        !.fs = <<fsSt>>, !.ip = ipfsSt]
            IN  IF ipfsSt = <<>> \/ After(fsSt, ipfsSt[1])
                THEN node' = [begun EXCEPT !.st = fsSt]
                ELSE IF AddPrivateKey(ipfsSt[1], keyed).priv
                     THEN node' = [begun EXCEPT
                                      !.st = AddPrivateKey(ipfsSt[1], keyed)]
                     ELSE NodeReturns("FindLatestState", <<>>,
                                      "failed to add private key to owner")

\* the directory a RemoveAll is working on
Target == IF node.pc = "rmtmp" THEN "tmp" ELSE "state"

\* os.RemoveAll removes one entry of the directory; a directory goes after
\* what it holds
RemoveEntry(e) ==
    LET d == disk[Target]
    IN  /\ node.pc \in {"rmtmp", "rmstate"}
        /\ e \in d.has
        /\ e = "players" => "player-000.json" \notin d.has
        /\ disk' = [disk EXCEPT
                       ![Target] =
                           [d EXCEPT
                               !.has = d.has \ {e},
                               !.lu = IF e = "last-updated" THEN <<>>
                                      ELSE d.lu,
                               !.body = IF e = "player-000.json" THEN ""
                                        ELSE d.body]]
        /\ UNCHANGED <<ipfs, node>>

\* os.RemoveAll removes the emptied directory, or finds none, and returns
RemoveDir ==
    /\ node.pc \in {"rmtmp", "rmstate"}
    /\ disk[Target].has = {}
    /\ disk' = [disk EXCEPT ![Target] = NoDir]
    /\ node' = [node EXCEPT !.pc = IF node.pc = "rmtmp" THEN "mkdir"
                                   ELSE "rename"]
    /\ UNCHANGED ipfs

\* os.Mkdir(tmp)
MkdirTmp ==
    /\ node.pc = "mkdir"
    /\ disk' = [disk EXCEPT !.tmp = [NoDir EXCEPT !.exists = TRUE]]
    /\ node' = [node EXCEPT !.pc = "write", !.n = 1]
    /\ UNCHANGED ipfs

\* the next entry is created under state-tmp: last-updated with
\* LastUpdatedString, the players directory, the owner's file, the games
\* directory
WriteEntry ==
    LET e == Entries[node.n]
        d == disk.tmp
    IN  /\ node.pc = "write"
        /\ disk' = [disk EXCEPT
                       !.tmp = [d EXCEPT
                                   !.has = d.has \cup {e},
                                   !.lu = IF e = "last-updated"
                                          THEN LastUpdatedString(node.st)
                                          ELSE d.lu,
                                   !.body = IF e = "player-000.json"
                                            THEN node.st.body
                                            ELSE d.body]]
        /\ node' = IF node.n = Len(Entries)
                   THEN [node EXCEPT !.pc = "rmstate", !.n = 0]
                   ELSE [node EXCEPT !.n = node.n + 1]
        /\ UNCHANGED ipfs

\* os.Rename(tmp, dir); State.Write returns, Commit goes on to publish
Rename ==
    /\ node.pc = "rename"
    /\ disk' = [state |-> disk.tmp, tmp |-> NoDir]
    /\ IF node.commit
       THEN node' = [node EXCEPT !.pc = "publish"]
       ELSE NodeReturns("Write", <<node.st>>, "")
    /\ UNCHANGED ipfs

\* the rest of Commit: the state object is published under the IPNS name;
\* FindLatestState returns the state
PublishState ==
    /\ node.pc = "publish"
    /\ ipfs' = <<LastUpdatedString(node.st), node.st.body>>
    /\ node' = [NoNode EXCEPT
                   !.fs = node.fs, !.ip = node.ip,
                   !.ret = [op |-> "FindLatestState", st |-> <<node.st>>,
                            err |-> ""]]
    /\ UNCHANGED disk

\* the file system or IPFS call the process is at returns an error
Fail ==
    /\ node.pc # "idle"
    /\ NodeReturns(OpName, <<>>,
                   IF node.commit THEN "failed to commit latest state"
                   ELSE "failed to write state to filesystem")
    /\ UNCHANGED <<disk, ipfs>>

\* the process is stopped where it is
Interrupt ==
    /\ node.pc # "idle"
    /\ NodeReturns("", <<>>, "")
    /\ UNCHANGED <<disk, ipfs>>

DiskNext ==
    \/ (\E t \in Stamps, loc \in Locations, body \in Bodies :
           StartWrite(t, loc, body)) /\ UNCHANGED nonDiskVars
    \/ (\E reach \in BOOLEAN, keyed \in BOOLEAN : FindStart(reach, keyed))
       /\ UNCHANGED nonDiskVars
    \/ (\E e \in AllEntries : RemoveEntry(e)) /\ UNCHANGED nonDiskVars
    \/ RemoveDir /\ UNCHANGED nonDiskVars
    \/ MkdirTmp /\ UNCHANGED nonDiskVars
    \/ WriteEntry /\ UNCHANGED nonDiskVars
    \/ Rename /\ UNCHANGED nonDiskVars
    \/ PublishState /\ UNCHANGED nonDiskVars
    \/ Fail /\ UNCHANGED nonDiskVars
    \/ Interrupt /\ UNCHANGED nonDiskVars

DiskSpec == Init /\ [][DiskNext]_vars

\* the directory holds a complete state
Complete(d) == d.exists /\ d.has = AllEntries /\ d.lu # <<>> /\ d.body # ""

\* C31: State.Write saves safely: nodeDir/state always holds a complete
\* state, the previous one or the new one, whatever step State.Write fails
\* or is stopped at, and nodeDir/state is touched only once nodeDir/state-tmp
\* holds the complete new state.
C31_SafeSaveAsStated ==
    /\ []Complete(disk.state)
    /\ [][disk'.state # disk.state => disk.tmp = Written(node.st)]_vars

\* C32: a FindLatestState that returns a state returns the filesystem state
\* when the IPFS state was not found or the filesystem LastUpdated is
\* strictly later, and the IPFS state otherwise, a tie included; the owner
\* of the returned state holds the private key, and the returned state is
\* the one in nodeDir/state and under the IPNS name.
C32_FindLatestState ==
    (node.pc = "idle" /\ node.ret.op = "FindLatestState" /\ node.ret.err = "")
    => LET r == node.ret.st[1]
           fs == node.fs[1]
           ip == node.ip
           chosen == IF ip = <<>> \/ fs.t > ip[1].t THEN fs ELSE ip[1]
       IN  /\ r.t = chosen.t /\ r.body = chosen.body
           /\ r.priv
           /\ disk.state = Written(r)
           /\ ipfs = <<LastUpdatedString(r), r.body>>

\* FindLatestState found both states last updated at the same instant with
\* different players and games, and returned the IPFS one with the private
\* key
C32_Witness ==
    /\ node.pc = "idle"
    /\ node.ret.op = "FindLatestState"
    /\ node.ret.err = ""
    /\ node.ip # <<>>
    /\ node.ip[1].t = node.fs[1].t
    /\ node.ip[1].body # node.fs[1].body
    /\ node.ret.st[1].body = node.ip[1].body
    /\ node.ret.st[1].priv
    /\ disk.state.body = node.ip[1].body

====
